---- MODULE Spec2Model ----
(***************************************************************************)
(* Model of the pointer-scan core of niqiuqiux/MX (Rust):                  *)
(*   pointer_scan/chain_builder.rs  phase 2, layered BFS chain builder     *)
(*   pointer_scan/scanner.rs        phase 1, parallel scan + k-way merge   *)
(*   pointer_scan/storage.rs        MmapQueue, the file-backed queue       *)
(*                                                                         *)
(* u64 quantities are kept at a width of WordBits bits (TLC integers are   *)
(* 32-bit): saturating and wrapping arithmetic saturate and wrap at        *)
(* U64_MAX = 2^WordBits - 1 exactly as the code does at 2^64 - 1.          *)
(***************************************************************************)
EXTENDS Integers, Sequences, FiniteSets, TLC

\* ------------------------------------------------------------------------
\* Widths and bounds
\* ------------------------------------------------------------------------

\* width of the model's u64
WordBits == 24

\* longest pointer queue handed to the chain builder
MaxQueue == 3

U64_MOD == 2 ^ WordBits
U64_MAX == U64_MOD - 1
I64_MAX == (U64_MOD \div 2) - 1

\* u64::saturating_sub / u64::saturating_add
saturating_sub(a, b) == IF a - b < 0 THEN 0 ELSE a - b
saturating_add(a, b) == IF a + b > U64_MAX THEN U64_MAX ELSE a + b

\* `x as i64` of a u64 (two's complement reinterpretation)
as_i64(x) == IF x > I64_MAX THEN x - U64_MOD ELSE x

\* i64::wrapping_sub on two i64 values
wrapping_sub(a, b) ==
    LET d == (a - b) % U64_MOD
    IN  IF d > I64_MAX THEN d - U64_MOD ELSE d

\* u64 wrapping add of a signed offset (how a chain is dereferenced)
wrapping_add_signed(a, off) == (a + off) % U64_MOD

Min(a, b) == IF a <= b THEN a ELSE b
Max(a, b) == IF a >= b THEN a ELSE b

\* the elements of a sequence
Range(s) == { s[i] : i \in 1..Len(s) }

\* ------------------------------------------------------------------------
\* State
\* ------------------------------------------------------------------------
VARIABLES
    \* --- build_pointer_chains (chain_builder.rs) ---
    cb_pc,          \* "idle" | "loop" | "sort" | "done"
    cb_in,          \* the call's inputs: [queue, modules, config]
    cb_cancel_pred, \* what the caller's check_cancelled() returns now
    cb_cancelled,   \* the local AtomicBool `cancelled`
    cb_depth,       \* the loop variable `depth`
    cb_layer,       \* current_layer: Seq of PathNode
    cb_results,     \* results: Seq of PointerChain
    cb_ret,         \* the returned Result: [ok, chains] once pc = "done"
    cb_progress,    \* the progress_callback calls made so far: Seq of <<depth, found>>
    cb_cap,         \* the MAX_CANDIDATES_PER_LAYER the build was compiled with
    cb_pruned,      \* the prune warnings logged so far: Seq of <<depth, from, to>>
    \* --- find_pointers_to_range as a function under test ---
    fp_in,          \* [queue, target, max_offset]
    fp_out,         \* the returned Vec<(u64, i64)>
    fp_pc,          \* "idle" | "call" | "done"
    \* --- the valid ranges and is_valid_pointer as functions under test ---
    vr_in,          \* the regions handed to scan_all_pointers
    vr_ranges,      \* valid_ranges once built
    vr_value,       \* the value handed to is_valid_pointer
    vr_out,         \* what is_valid_pointer returned
    vr_pc,          \* "idle" | "build" | "ready" | "asked"
    \* --- the file system under the cache directories ---
    fs,             \* [dir: path -> inode id, inodes: id -> [len, words], next: id]
    \* --- MmapQueue<PointerData> instances (storage.rs) ---
    mq_handles,     \* the queue handles the program holds
    mq,             \* handle -> MmapQueue struct
    mq_pushed,      \* handle -> items whose push returned Ok since new / clear
    mq_all_ok,      \* handle -> no call on the queue has failed since new
    mq_news,        \* handle -> number of MmapQueue::new calls made for it
    mq_env,         \* what the run exercises: [items, faults, new_faults]
    \* --- scan_all_pointers (scanner.rs) ---
    sc_pc,          \* main thread: "idle" | "scan" | "join" | "done"
    sc_in,          \* the call's inputs: [regions, align, cache_dir, env]
    sc_valid_ranges, \* the local valid_ranges, built before the writer is spawned
    sc_pred,        \* what the caller's check_cancelled() returns now
    sc_pred_when,   \* the phase in which it turned true: "never" | "unstarted" | "scanning" | "late"
    sc_cancelled,   \* the shared AtomicBool `cancelled`
    sc_task,        \* region index -> [st, cur, found]: the par_iter task of the region
    sc_chan,        \* the batches buffered in the sync_channel
    sc_rx_alive,    \* the receiver has not been dropped
    sc_writer,      \* the writer thread: [st, chunk, buffer, temp_files, res]
    sc_total_found, \* AtomicUsize total_found
    sc_completed,   \* AtomicUsize completed_regions
    sc_progress,    \* the progress_callback calls made so far
    sc_ret,         \* the returned Result: [returned, ok, err, queue]
    sc_pool,        \* the number of threads of the work-stealing pool
    sc_bound,       \* the pid DRIVER_MANAGER is bound to now
    sc_binds,       \* binds made by other threads during the call
    sc_region_pid,  \* region index -> the pid its reads went to (0: no read yet)
    \* --- DriverManager behind its RwLock, and the JNI calls on it (driver.rs) ---
    dm,             \* the DriverManager: [driver, mode, bound_pid, bind_handle]
    dm_poisoned,    \* the RwLock is poisoned
    dm_last_change, \* the last call that changed the binding: "none" | "bind" | "unbind"
    drv_live,       \* the driver-side bindings now held: set of [id, pid]
    drv_next,       \* the id of the next binding the driver hands out
    jni_bind,       \* thread -> nativeBindProcess in flight: [pc, pid, handle]
    jni_ret,        \* the JNI call that returned last, with what it did
    \* --- fuzzy_initial_scan (fuzzy_search.rs) ---
    fz_pc,          \* "idle" | "scan" | "done"
    fz_in,          \* the call's inputs: [value_type, start, end, chunk_size, env]
    fz_pred,        \* what check_cancelled() returns now
    fz_current,     \* the loop variable `current`
    fz_results,     \* results: the set of FuzzySearchResultItem
    fz_reads,       \* the driver reads issued so far: Seq of <<addr, len>>
    fz_processed,   \* processed_counter
    fz_total_found, \* total_found_counter
    fz_ret,         \* the returned Result: [returned, cancelled, items]
    \* --- fuzzy_refine_search (fuzzy_search.rs) ---
    fr_pc,          \* "idle" | "io" | "match" | "done"
    fr_in,          \* the call's inputs: [items, condition, env]
    fr_pred,        \* what check_cancelled() returns now
    fr_idx,         \* the index of the I/O loop
    fr_read,        \* items_with_current_value: Seq of <<old_item, current_value>>
    fr_reads,       \* the addresses read so far, in order
    fr_seen,        \* the index at which the I/O loop saw the cancellation, or -1
    fr_cancelled,   \* the AtomicBool of the matching phase
    fr_todo,        \* positions of fr_read the matching phase has not looked at
    fr_matched,     \* the items the matching phase kept
    fr_processed,   \* processed_counter
    fr_total_found, \* total_found_counter
    fr_progress,    \* the update_progress calls so far: Seq of <<processed, found>>
    fr_ret,         \* the returned Result: [returned, items]
    fr_pass,        \* 1 in the first call, 2 in a second call on its result
    fr_first        \* the first call's input items and result, for the second

chainVars == <<cb_pc, cb_in, cb_cancel_pred, cb_cancelled, cb_depth, cb_layer,
               cb_results, cb_ret, cb_progress, cb_cap, cb_pruned>>
findVars == <<fp_in, fp_out, fp_pc>>
rangeVars == <<vr_in, vr_ranges, vr_value, vr_out, vr_pc>>
fsVars == <<fs>>
queueVars == <<mq_handles, mq, mq_pushed, mq_all_ok, mq_news, mq_env>>

scanVars == <<sc_pc, sc_in, sc_valid_ranges, sc_pred, sc_pred_when, sc_cancelled,
              sc_task, sc_chan,
              sc_rx_alive, sc_writer, sc_total_found, sc_completed, sc_progress,
              sc_ret, sc_pool, sc_bound, sc_binds, sc_region_pid>>

driverVars == <<dm, dm_poisoned, dm_last_change, drv_live, drv_next, jni_bind, jni_ret>>

fuzzyVars == <<fz_pc, fz_in, fz_pred, fz_current, fz_results, fz_reads, fz_processed,
               fz_total_found, fz_ret>>
refineVars == <<fr_pc, fr_in, fr_pred, fr_idx, fr_read, fr_reads, fr_seen, fr_cancelled,
                fr_todo, fr_matched, fr_processed, fr_total_found, fr_progress, fr_ret,
                fr_pass, fr_first>>

notChain == <<findVars, fsVars, queueVars, scanVars, driverVars, fuzzyVars, refineVars,
    rangeVars>>
notFind == <<chainVars, fsVars, queueVars, scanVars, driverVars, fuzzyVars, refineVars,
    rangeVars>>
notQueue == <<chainVars, findVars, scanVars, driverVars, fuzzyVars, refineVars,
    rangeVars>>
notScan == <<chainVars, findVars, queueVars, driverVars, fuzzyVars, refineVars,
    rangeVars>>
notDriver == <<chainVars, findVars, fsVars, queueVars, scanVars, fuzzyVars, refineVars,
    rangeVars>>
notFuzzy == <<chainVars, findVars, fsVars, queueVars, scanVars, driverVars, refineVars,
    rangeVars>>
notRefine == <<chainVars, findVars, fsVars, queueVars, scanVars, driverVars, fuzzyVars,
    rangeVars>>
notRange == <<chainVars, findVars, fsVars, queueVars, scanVars, driverVars, fuzzyVars,
    refineVars>>

\* ------------------------------------------------------------------------
\* chain_builder.rs: searching the sorted pointer queue
\* ------------------------------------------------------------------------

\* PointerData { address, value }
PointerData(a, v) == [address |-> a, value |-> v]

\* the MmapQueue<PointerData> the chain builder is handed, as len() and
\* get() show it: the records pushed, and whether the mapping is present
\* (a push that failed in grow_old leaves `mmap: None`)
PointerQueue(records, mapped) == [records |-> records, mmap |-> mapped]

\* queue.get(index): None past the index vector or without the mapping
\* (indices are 0-based as in the code)
queue_get(queue, index) ==
    IF index >= Len(queue.records) \/ ~queue.mmap
    THEN [some |-> FALSE, rec |-> PointerData(0, 0)]
    ELSE [some |-> TRUE, rec |-> queue.records[index + 1]]

\* the closure get_value: queue.get(index).map(|archived| archived.value)
get_value(queue, index) ==
    LET archived == queue_get(queue, index)
    IN  [some |-> archived.some, val |-> archived.rec.value]

\* one of the two binary-search loops of find_range_in_pointer_queue:
\* the first index in [left, right) whose value is not below `bound`;
\* `None => break` leaves the loop with `left` as it is
RECURSIVE binary_search_bound(_, _, _, _)
binary_search_bound(queue, bound, left, right) ==
    IF left < right
    THEN LET mid == left + (right - left) \div 2
             v == get_value(queue, mid)
         IN  IF ~v.some
             THEN left
             ELSE IF v.val < bound
             THEN binary_search_bound(queue, bound, mid + 1, right)
             ELSE binary_search_bound(queue, bound, left, mid)
    ELSE left

\* a lower-bound search that forgets min_value: the range starts at index 0
find_range_no_lower_bound(queue, min_value, max_value) ==
    IF Len(queue.records) = 0
    THEN <<0, 0>>
    ELSE <<0, binary_search_bound(queue, max_value, 0, Len(queue.records))>>

\* find_range_in_pointer_queue: [start_idx, end_idx) of values in [min, max)
find_range_in_pointer_queue(queue, min_value, max_value) ==
    LET count == Len(queue.records)
    IN  IF count = 0
        THEN <<0, 0>>
        ELSE LET start_idx == binary_search_bound(queue, min_value, 0, count)
                 end_idx == binary_search_bound(queue, max_value, start_idx, count)
             IN  <<start_idx, end_idx>>

\* find_pointers_to_range: Vec<(ptr_address, offset)>, offset = target - value
find_pointers_to_range(pointer_lib, target, max_offset) ==
    LET min_value == saturating_sub(target, max_offset)
        max_value == saturating_add(target, max_offset + 1)
        rng == find_range_in_pointer_queue(pointer_lib, min_value, max_value)
        start_idx == rng[1]
        end_idx == rng[2]
        found == SelectSeq([k \in 1..(end_idx - start_idx) |-> start_idx + k - 1],
                           LAMBDA i : queue_get(pointer_lib, i).some)
    IN  [k \in 1..Len(found) |->
            LET archived == queue_get(pointer_lib, found[k]).rec
            IN  <<archived.address,
                  wrapping_sub(as_i64(target), as_i64(archived.value))>>]

\* ------------------------------------------------------------------------
\* chain_builder.rs: static modules, path nodes, chains
\* ------------------------------------------------------------------------

\* VmStaticData { name, index, base, size }
VmStaticData(n, i, b, s) == [name |-> n, index |-> i, base |-> b, size |-> s]

\* VmStaticData::contains / offset_from_base
contains(module, addr) == module.base <= addr /\ addr < module.base + module.size
offset_from_base(module, addr) == addr - module.base

\* Option<(String, u32, u64)>: `some` tells Some from None
NoModule == [some |-> FALSE, module_name |-> "", module_index |-> 0, base_offset |-> 0]

\* classify_pointer: the first module that contains the address
RECURSIVE classify_pointer(_, _)
classify_pointer(address, static_modules) ==
    IF static_modules = <<>>
    THEN NoModule
    ELSE LET module == Head(static_modules)
         IN  IF contains(module, address)
             THEN [some |-> TRUE, module_name |-> module.name,
                   module_index |-> module.index,
                   base_offset |-> offset_from_base(module, address)]
             ELSE classify_pointer(address, Tail(static_modules))

\* PointerChainStep::static_root / dynamic_offset (one struct, optional module)
static_root(name, index, base_offset) ==
    [kind |-> "StaticRoot", module_name |-> name, module_index |-> index,
     offset |-> base_offset]
dynamic_offset(off) ==
    [kind |-> "DynamicOffset", module_name |-> "", module_index |-> 0,
     offset |-> off]

\* PointerChain { target, steps } and PointerChain::depth
PointerChain(t, st) == [target |-> t, steps |-> st]
chain_depth(chain) == IF Len(chain.steps) = 0 THEN 0 ELSE Len(chain.steps) - 1

\* PathNode::new / PathNode::depth / PathNode::child
PathNode_new(t) == [current_target |-> t, offset_history |-> <<>>]
PathNode_depth(node) == Len(node.offset_history)
\* a child that continues from the pointer's value instead of its address
PathNode_child_keeps_target(node, ptr_address, offset) ==
    [current_target |-> node.current_target,
     offset_history |-> Append(node.offset_history, offset)]
PathNode_child(node, ptr_address, offset) ==
    [current_target |-> ptr_address,
     offset_history |-> Append(node.offset_history, offset)]

Candidate(a, off, p) == [ptr_address |-> a, offset |-> off, parent_idx |-> p]

Reverse(s) == [i \in 1..Len(s) |-> s[Len(s) + 1 - i]]

MAX_CANDIDATES_PER_LAYER == 30000000

\* the scatter phase: the candidates of every node of the layer, in layer
\* order (parent_idx is the 0-based index of the node); idx is 1-based
RECURSIVE scatter(_, _, _, _)
scatter(current_layer, idx, pointer_lib, max_offset) ==
    IF idx > Len(current_layer)
    THEN <<>>
    ELSE LET pointers == find_pointers_to_range(
                             pointer_lib, current_layer[idx].current_target, max_offset)
         IN  [k \in 1..Len(pointers) |->
                 Candidate(pointers[k][1], pointers[k][2], idx - 1)]
             \o scatter(current_layer, idx + 1, pointer_lib, max_offset)

\* the chain pushed for a candidate that lies in a static module
build_chain(candidate, parent, cls, config) ==
    PointerChain(config.target_address,
        <<static_root(cls.module_name, cls.module_index, as_i64(cls.base_offset))>>
        \o (IF candidate.offset # 0 THEN <<dynamic_offset(candidate.offset)>> ELSE <<>>)
        \o [i \in 1..Len(parent.offset_history) |->
               dynamic_offset(Reverse(parent.offset_history)[i])])

\* a loop body that keeps one node per pointer address
classify_candidate_dedup(candidate, current_layer, inp, depth, acc) ==
    LET parent == current_layer[candidate.parent_idx + 1]
        cls == classify_pointer(candidate.ptr_address, inp.modules)
    IN  IF candidate.ptr_address = inp.config.target_address
        THEN acc
        ELSE [results |->
                 IF cls.some
                 THEN Append(acc.results, build_chain(candidate, parent, cls, inp.config))
                 ELSE acc.results,
              next_layer |->
                 IF depth + 1 < inp.config.max_depth
                    /\ (~inp.config.scan_static_only \/ ~cls.some)
                    /\ \A k \in 1..Len(acc.next_layer) :
                           acc.next_layer[k].current_target # candidate.ptr_address
                 THEN Append(acc.next_layer,
                             PathNode_child(parent, candidate.ptr_address, candidate.offset))
                 ELSE acc.next_layer]
\* a loop body that expands static candidates whatever scan_static_only says
classify_candidate_expand_static(candidate, current_layer, inp, depth, acc) ==
    LET parent == current_layer[candidate.parent_idx + 1]
        cls == classify_pointer(candidate.ptr_address, inp.modules)
    IN  IF candidate.ptr_address = inp.config.target_address
        THEN acc
        ELSE [results |->
                 IF cls.some
                 THEN Append(acc.results, build_chain(candidate, parent, cls, inp.config))
                 ELSE acc.results,
              next_layer |->
                 IF depth + 1 < inp.config.max_depth
                 THEN Append(acc.next_layer,
                             PathNode_child(parent, candidate.ptr_address, candidate.offset))
                 ELSE acc.next_layer]
\* a loop body without the `ptr_address == target_address` guard
classify_candidate_keep_origin(candidate, current_layer, inp, depth, acc) ==
    LET parent == current_layer[candidate.parent_idx + 1]
        cls == classify_pointer(candidate.ptr_address, inp.modules)
    IN  [results |->
             IF cls.some
             THEN Append(acc.results, build_chain(candidate, parent, cls, inp.config))
             ELSE acc.results,
         next_layer |->
             IF depth + 1 < inp.config.max_depth
                /\ (~inp.config.scan_static_only \/ ~cls.some)
             THEN Append(acc.next_layer,
                         PathNode_child(parent, candidate.ptr_address, candidate.offset))
             ELSE acc.next_layer]
\* the body of `for candidate in candidates`: acc = [results, next_layer]
classify_candidate(candidate, current_layer, inp, depth, acc) ==
    LET parent == current_layer[candidate.parent_idx + 1]
        cls == classify_pointer(candidate.ptr_address, inp.modules)
    IN  IF candidate.ptr_address = inp.config.target_address
        THEN acc
        ELSE [results |->
                 IF cls.some
                 THEN Append(acc.results, build_chain(candidate, parent, cls, inp.config))
                 ELSE acc.results,
              next_layer |->
                 IF depth + 1 < inp.config.max_depth
                    /\ (~inp.config.scan_static_only \/ ~cls.some)
                 THEN Append(acc.next_layer,
                             PathNode_child(parent, candidate.ptr_address, candidate.offset))
                 ELSE acc.next_layer]

RECURSIVE classify_and_emit(_, _, _, _, _, _)
classify_and_emit(candidates, i, current_layer, inp, depth, acc) ==
    IF i > Len(candidates)
    THEN acc
    ELSE classify_and_emit(candidates, i + 1, current_layer, inp, depth,
             classify_candidate(candidates[i], current_layer, inp, depth, acc))

\* if next_layer.len() > MAX { next_layer.truncate(MAX) }
truncate(layer, max_candidates) ==
    IF Len(layer) > max_candidates
    THEN SubSeq(layer, 1, max_candidates)
    ELSE layer

\* String::cmp on the module names in use; Option: None sorts before Some
NameRank(name) ==
    CASE name = "" -> 0
      [] name = "libA" -> 1
      [] name = "libB" -> 2
      [] OTHER -> 3
first_module_name(chain) ==
    IF Len(chain.steps) = 0 THEN "" ELSE chain.steps[1].module_name

\* the comparator of results.par_sort_by: a <= b
chain_le(a, b) ==
    IF chain_depth(a) # chain_depth(b)
    THEN chain_depth(a) < chain_depth(b)
    ELSE NameRank(first_module_name(a)) <= NameRank(first_module_name(b))

\* par_sort_by is a stable sort: insert each chain after its equals
RECURSIVE insert_sorted(_, _)
insert_sorted(sorted, c) ==
    IF sorted = <<>>
    THEN <<c>>
    ELSE IF chain_le(Head(sorted), c)
         THEN <<Head(sorted)>> \o insert_sorted(Tail(sorted), c)
         ELSE <<c>> \o sorted
\* results left in the order the search pushed them
unsorted_chains(results, i) == SubSeq(results, 1, i)

RECURSIVE sort_chains(_, _)
sort_chains(results, i) ==
    IF i = 0 THEN <<>> ELSE insert_sorted(sort_chains(results, i - 1), results[i])


\* ------------------------------------------------------------------------
\* Inputs of the chain builder
\* ------------------------------------------------------------------------

libA == VmStaticData("libA", 0, 4194304, 4096)   \* base 0x400000, size 0x1000
libB == VmStaticData("libB", 1, 5242880, 4096)   \* base 0x500000, size 0x1000

libT == VmStaticData("libT", 2, 131072, 4096)    \* the module that holds the target

ModuleLists == { <<libA>>, <<libB, libA>>, <<libT, libA>> }

\* the records a pointer queue is drawn from
ChainPool ==
    { PointerData(4194560, 65536),    \* libA+0x100 -> 0x10000
      PointerData(65792, 131072),     \* 0x10100    -> 0x20000 (the target)
      PointerData(4194816, 131072),   \* libA+0x200 -> the target itself
      PointerData(4195072, 65792),    \* libA+0x300 -> 0x10100 exactly
      PointerData(5243136, 131064),   \* libB+0x100 -> target - 8
      PointerData(131072, 65792),     \* at the target address -> 0x10100
      PointerData(66048, 131088),     \* 0x10200    -> target + 0x10
      PointerData(4195328, 65776),    \* libA+0x400 -> 0x10100 - 0x10
      PointerData(65920, 131056),     \* 0x10180    -> target - 0x10
      PointerData(131064, 131056) }   \* target - 8 -> target - 0x10 (8 below itself)

is_sorted_by_value(q) == \A i \in 1..Len(q) : \A j \in 1..Len(q) :
                             i < j => q[i].value <= q[j].value

\* every arrangement of the records of S that is sorted by value
SortedArrangements(S) ==
    { q \in [1..Cardinality(S) -> S] :
        /\ \A i \in 1..Cardinality(S) : \A j \in 1..Cardinality(S) :
               i # j => q[i] # q[j]
        /\ is_sorted_by_value(q) }

SortedQueues(pool) ==
    UNION { SortedArrangements(S) :
              S \in { T \in SUBSET pool : Cardinality(T) <= MaxQueue } }

\* PointerScanConfig { target_address, max_depth, max_offset, align, scan_static_only }
ChainConfigs ==
    [ target_address : {131072},          \* 0x20000
      max_depth : 1..3,
      max_offset : {0, 16, 256},
      align : {8},
      scan_static_only : BOOLEAN ]

\* boundary scenario d of the specification, literally
ScenarioD ==
    [ queue |-> PointerQueue(<< PointerData(4194560, 65536),
                                PointerData(65792, 131072) >>, TRUE),
      modules |-> <<libA>>,
      config |-> [ target_address |-> 131072, max_depth |-> 2, max_offset |-> 0,
                   align |-> 8, scan_static_only |-> FALSE ] ]

\* ------------------------------------------------------------------------
\* build_pointer_chains_layered_bfs as a process
\* ------------------------------------------------------------------------

NoRet == [returned |-> FALSE, ok |-> FALSE, chains |-> <<>>]

ChainIdle ==
    /\ cb_pc = "idle"
    /\ cb_in = ScenarioD
    /\ cb_cancel_pred = FALSE
    /\ cb_cancelled = FALSE
    /\ cb_depth = 0
    /\ cb_layer = <<>>
    /\ cb_results = <<>>
    /\ cb_ret = NoRet
    /\ cb_progress = <<>>
    /\ cb_cap = MAX_CANDIDATES_PER_LAYER
    /\ cb_pruned = <<>>

\* the state at the head of the `for depth in 0..max_depth` loop, in a build
\* whose MAX_CANDIDATES_PER_LAYER is max_candidates; the queue is any sorted
\* queue, with its mapping or after a push that lost it
ChainStart(max_candidates) ==
    /\ \E q \in SortedQueues(ChainPool), mapped \in BOOLEAN,
          m \in ModuleLists, c \in ChainConfigs :
           cb_in = [queue |-> PointerQueue(q, mapped), modules |-> m, config |-> c]
    /\ cb_pc = "loop"
    /\ cb_cancel_pred = FALSE
    /\ cb_cancelled = FALSE
    /\ cb_depth = 0
    /\ cb_layer = <<PathNode_new(cb_in.config.target_address)>>
    /\ cb_results = <<>>
    /\ cb_ret = NoRet
    /\ cb_progress = <<>>
    /\ cb_cap = max_candidates
    /\ cb_pruned = <<>>

ChainInit == ChainStart(MAX_CANDIDATES_PER_LAYER)

\* the layer cap scaled down so that a layer of the modelled queues exceeds it
LayerCap == 2
ChainInitPruned == ChainStart(LayerCap)

\* the caller's cancellation predicate turns true (at any time during the call)
CbCallerCancel ==
    /\ cb_pc \in {"loop", "sort"}
    /\ ~cb_cancel_pred
    /\ cb_cancel_pred' = TRUE
    /\ UNCHANGED <<cb_pc, cb_in, cb_cancelled, cb_depth, cb_layer, cb_results,
                   cb_ret, cb_progress, cb_cap, cb_pruned>>
    /\ UNCHANGED notChain

\* one iteration of the loop: the cancel check, the empty-layer check, the
\* scatter, the classify-and-emit pass, the prune and the progress report
CbLayer ==
    /\ cb_pc = "loop"
    /\ cb_depth < cb_in.config.max_depth
    /\ IF cb_cancel_pred
       THEN /\ cb_cancelled' = TRUE
            /\ cb_pc' = "sort"
            /\ UNCHANGED <<cb_depth, cb_layer, cb_results, cb_progress, cb_pruned>>
       ELSE IF cb_layer = <<>>
       THEN /\ cb_pc' = "sort"
            /\ UNCHANGED <<cb_cancelled, cb_depth, cb_layer, cb_results, cb_progress,
                           cb_pruned>>
       ELSE LET candidates == scatter(cb_layer, 1, cb_in.queue, cb_in.config.max_offset)
                acc == classify_and_emit(candidates, 1, cb_layer, cb_in, cb_depth,
                           [results |-> cb_results, next_layer |-> <<>>])
            IN  /\ cb_results' = acc.results
                /\ cb_layer' = truncate(acc.next_layer, cb_cap)
                /\ cb_pruned' = IF Len(acc.next_layer) > cb_cap
                                THEN Append(cb_pruned,
                                            <<cb_depth, Len(acc.next_layer), cb_cap>>)
                                ELSE cb_pruned
                /\ cb_progress' = Append(cb_progress,
                                         <<cb_depth + 1, Len(acc.results)>>)
                /\ cb_depth' = cb_depth + 1
                /\ cb_pc' = IF cb_depth + 1 < cb_in.config.max_depth
                            THEN "loop" ELSE "sort"
                /\ UNCHANGED cb_cancelled
    /\ UNCHANGED <<cb_in, cb_cancel_pred, cb_ret, cb_cap>>
    /\ UNCHANGED notChain

\* after the loop: the final progress report, the sort and `Ok(results)`
CbReturn ==
    /\ cb_pc = "sort"
    /\ cb_progress' = Append(cb_progress,
                             <<cb_in.config.max_depth, Len(cb_results)>>)
    /\ cb_results' = sort_chains(cb_results, Len(cb_results))
    /\ cb_ret' = [returned |-> TRUE, ok |-> TRUE, chains |-> cb_results']
    /\ cb_pc' = "done"
    /\ UNCHANGED <<cb_in, cb_cancel_pred, cb_cancelled, cb_depth, cb_layer,
                   cb_cap, cb_pruned>>
    /\ UNCHANGED notChain

ChainNext == CbCallerCancel \/ CbLayer \/ CbReturn

\* ------------------------------------------------------------------------
\* find_pointers_to_range as a function under test
\* ------------------------------------------------------------------------

\* records around the scenario-c values and at both ends of the u64 range
FindPool ==
    { PointerData(10, 100), PointerData(20, 105), PointerData(30, 115),
      PointerData(40, 105), PointerData(50, 0), PointerData(60, 2),
      PointerData(70, U64_MAX), PointerData(80, U64_MAX - 1) }

FindTargets == {0, 1, 107, 110, U64_MAX - 1, U64_MAX}
FindOffsets == {0, 1, 5, 10}

FindIdle ==
    /\ fp_pc = "idle"
    /\ fp_in = [queue |-> PointerQueue(<<>>, TRUE), target |-> 0, max_offset |-> 0]
    /\ fp_out = <<>>

FindInit ==
    /\ \E q \in SortedQueues(FindPool), mapped \in BOOLEAN,
          t \in FindTargets, m \in FindOffsets :
           fp_in = [queue |-> PointerQueue(q, mapped), target |-> t, max_offset |-> m]
    /\ fp_pc = "call"
    /\ fp_out = <<>>

FpCall ==
    /\ fp_pc = "call"
    /\ fp_out' = find_pointers_to_range(fp_in.queue, fp_in.target, fp_in.max_offset)
    /\ fp_pc' = "done"
    /\ UNCHANGED fp_in
    /\ UNCHANGED notFind

FindNext == FpCall

\* ------------------------------------------------------------------------
\* The file system: directory entries and inodes
\* ------------------------------------------------------------------------

\* a file is a sequence of 8-byte words; len is its length in bytes
WORD == 8
Zeros(n) == [i \in 1..n |-> 0]

EmptyFs == [dir |-> <<>>, inodes |-> <<>>, next |-> 1]

FileExists(w, path) == \E i \in DOMAIN w.dir : w.dir[i].path = path
InodeOf(w, path) == (CHOOSE i \in DOMAIN w.dir : w.dir[i].path = path)

\* File::set_len: truncate, or extend with zero bytes
set_len(w, ino, n) ==
    LET f == w.inodes[ino]
        nw == n \div WORD
    IN  [w EXCEPT !.inodes[ino] =
            [len |-> n,
             words |-> [i \in 1..nw |-> IF i <= Len(f.words) THEN f.words[i] ELSE 0]]]

\* OpenOptions read+write+create+truncate: the inode the path names, emptied,
\* or a new empty inode linked at the path
open_create_truncate(w, path) ==
    IF FileExists(w, path)
    THEN [w |-> set_len(w, w.dir[InodeOf(w, path)].ino, 0),
          ino |-> w.dir[InodeOf(w, path)].ino]
    ELSE [w |-> [dir |-> Append(w.dir, [path |-> path, ino |-> w.next]),
                 inodes |-> Append(w.inodes, [len |-> 0, words |-> <<>>]),
                 next |-> w.next + 1],
          ino |-> w.next]

\* std::fs::remove_file: unlink the path (the inode lives on while mapped)
remove_file(w, path) ==
    [w EXCEPT !.dir = SelectSeq(w.dir, LAMBDA e : e.path # path)]

\* ------------------------------------------------------------------------
\* storage.rs: MmapQueue<PointerData>
\* ------------------------------------------------------------------------

ALIGNMENT == 16

\* the file sizes in records of 16 bytes, scaled down from 128 MiB / 64 MiB
InitialRecords == 2
GrowRecords == 1
INITIAL_SIZE == InitialRecords * 16
GROW_SIZE == GrowRecords * 16

\* most items one queue is given
MaxItems == 4
\* most MmapQueue::new calls for one handle
MaxNew == 1

\* rkyv::to_bytes of PointerData: the address word, then the value word
to_bytes(item) == <<item.address, item.value>>
\* access_unchecked::<ArchivedPointerData> of a slice of the mapping
access_unchecked(words) == PointerData(words[1], words[2])

\* cache_dir.join(format!("mamu_ps_{}.bin", name))
queue_path(cache_dir, name) == <<cache_dir, "mamu_ps", name, "bin">>

NoMmap == [some |-> FALSE, len |-> 0]
DeadQueue ==
    [alive |-> FALSE, file |-> 0, file_path |-> <<>>, mmap |-> NoMmap,
     capacity |-> 0, count |-> 0, write_offset |-> 0, indices |-> <<>>]

\* the step of MmapQueue::new that fails: "open" is create_dir_all or open,
\* "set_len" and "map" come after the file was created or truncated
NewFaults == {"none", "open", "set_len", "map"}

\* MmapQueue::new; an Err drops the File and leaves what the earlier steps
\* did to the file at file_path
MmapQueue_new(w, cache_dir, name, fault) ==
    LET file_path == queue_path(cache_dir, name)
        o == open_create_truncate(w, file_path)
    IN  IF fault = "open"
        THEN [w |-> w, q |-> DeadQueue, res |-> "Err"]
        ELSE IF fault = "set_len"
        THEN [w |-> o.w, q |-> DeadQueue, res |-> "Err"]
        ELSE IF fault = "map"
        THEN [w |-> set_len(o.w, o.ino, INITIAL_SIZE), q |-> DeadQueue, res |-> "Err"]
        ELSE [w |-> set_len(o.w, o.ino, INITIAL_SIZE),
              q |-> [alive |-> TRUE, file |-> o.ino, file_path |-> file_path,
                     mmap |-> [some |-> TRUE, len |-> INITIAL_SIZE],
                     capacity |-> INITIAL_SIZE, count |-> 0, write_offset |-> 0,
                     indices |-> <<>>],
              res |-> "Ok"]

\* MmapQueue::grow_old; fault names the call that fails: "none", "set_len", "map"
grow_old(w, q, fault) ==
    LET q1 == [q EXCEPT !.mmap = NoMmap]
        new_size == q.capacity + GROW_SIZE
    IN  IF fault = "set_len"
        THEN [w |-> w, q |-> q1, res |-> "Err"]
        ELSE IF fault = "map"
        THEN [w |-> set_len(w, q.file, new_size), q |-> q1, res |-> "Err"]
        ELSE [w |-> set_len(w, q.file, new_size),
              q |-> [q1 EXCEPT !.mmap = [some |-> TRUE, len |-> new_size],
                               !.capacity = new_size],
              res |-> "Ok"]

\* `while self.write_offset + required_space > self.capacity { self.grow_old()? }`
\* the first grow_old call takes the fault, the later ones succeed
RECURSIVE grow_loop(_, _, _, _)
grow_loop(w, q, required_space, fault) ==
    IF q.write_offset + required_space > q.capacity
    THEN LET g == grow_old(w, q, fault)
         IN  IF g.res = "Ok"
             THEN grow_loop(g.w, g.q, required_space, "none")
             ELSE g
    ELSE [w |-> w, q |-> q, res |-> "Ok"]

\* copy_nonoverlapping into the mapping: the words land in the file
write_words(w, ino, byte_offset, words) ==
    [w EXCEPT !.inodes[ino].words =
        [i \in 1..Len(@) |->
            IF i > byte_offset \div WORD /\ i <= byte_offset \div WORD + Len(words)
            THEN words[i - byte_offset \div WORD]
            ELSE @[i]]]

\* a push that records the index entry after advancing write_offset
push_index_after_advance(w, q, item, fault) ==
    LET bytes == to_bytes(item)
        size == Len(bytes) * WORD
        padding == (ALIGNMENT - (q.write_offset % ALIGNMENT)) % ALIGNMENT
        required_space == size + padding
        g == grow_loop(w, q, required_space, fault)
    IN  IF g.res # "Ok"
        THEN g
        ELSE [w |-> write_words(g.w, g.q.file, g.q.write_offset + padding, bytes),
              q |-> [g.q EXCEPT
                       !.indices = Append(@, <<g.q.write_offset + required_space, size>>),
                       !.write_offset = @ + required_space,
                       !.count = @ + 1],
              res |-> "Ok"]

\* MmapQueue::push: "Ok", "Err" (a grow failed), "Panic" (no mapping),
\* "Fault" (the mapping reaches past the end of the file)
push(w, q, item, fault) ==
    LET bytes == to_bytes(item)
        size == Len(bytes) * WORD
        padding == (ALIGNMENT - (q.write_offset % ALIGNMENT)) % ALIGNMENT
        required_space == size + padding
        g == grow_loop(w, q, required_space, fault)
    IN  IF g.res # "Ok"
        THEN g
        ELSE IF ~g.q.mmap.some
        THEN [w |-> g.w, q |-> g.q, res |-> "Panic"]
        ELSE IF g.q.write_offset + required_space > g.w.inodes[g.q.file].len
        THEN [w |-> g.w, q |-> g.q, res |-> "Fault"]
        ELSE [w |-> write_words(g.w, g.q.file, g.q.write_offset + padding, bytes),
              q |-> [g.q EXCEPT
                       !.indices = Append(@, <<g.q.write_offset + padding, size>>),
                       !.write_offset = @ + required_space,
                       !.count = @ + 1],
              res |-> "Ok"]

\* MmapQueue::push_batch: push in order, stop at the first failure;
\* n counts the items pushed
RECURSIVE push_batch(_, _, _, _, _)
push_batch(w, q, items, fault, n) ==
    IF items = <<>>
    THEN [w |-> w, q |-> q, res |-> "Ok", n |-> n]
    ELSE LET r == push(w, q, Head(items), fault)
         IN  IF r.res = "Ok"
             THEN push_batch(r.w, r.q, Tail(items),
                             IF q.capacity # r.q.capacity THEN "none" ELSE fault, n + 1)
             ELSE [w |-> r.w, q |-> r.q, res |-> r.res, n |-> n]

\* MmapQueue::get: None, or the archived record read through the mapping;
\* a read past the end of the file faults
NoneRecord == [some |-> FALSE, fault |-> FALSE, rec |-> PointerData(0, 0)]
get(w, q, index) ==
    IF index >= Len(q.indices) \/ ~q.mmap.some
    THEN NoneRecord
    ELSE LET offset == q.indices[index + 1][1]
             length == q.indices[index + 1][2]
             f == w.inodes[q.file]
         IN  IF offset + length > f.len
             THEN [some |-> TRUE, fault |-> TRUE, rec |-> PointerData(0, 0)]
             ELSE [some |-> TRUE, fault |-> FALSE,
                   rec |-> access_unchecked(
                       SubSeq(f.words, offset \div WORD + 1,
                              (offset + length) \div WORD))]

\* MmapQueue::len
len(q) == q.count

\* a clear that resets the counters and leaves the index vector alone
clear_keep_indices(q) == [q EXCEPT !.count = 0, !.write_offset = 0]
\* MmapQueue::clear
clear(q) == [q EXCEPT !.count = 0, !.write_offset = 0, !.indices = <<>>]

\* Drop for MmapQueue: unmap, then remove the file at file_path
drop(w, q) == [w |-> remove_file(w, q.file_path), q |-> DeadQueue]

\* ------------------------------------------------------------------------
\* MmapQueue as a process: the operations a holder of handles may call
\* ------------------------------------------------------------------------

Handles == {1, 2}
CacheDirs == {"cache"}
QueueNames == {"pointer_lib", "aux"}
QueueItems == { PointerData(16, 100), PointerData(24, 200) }
GrowFaults == {"none", "set_len", "map"}

QueueIdle ==
    /\ fs = EmptyFs
    /\ mq_handles = {}
    /\ mq = [h \in Handles |-> DeadQueue]
    /\ mq_pushed = [h \in Handles |-> <<>>]
    /\ mq_all_ok = [h \in Handles |-> TRUE]
    /\ mq_news = [h \in Handles |-> 0]
    /\ mq_env = [items |-> QueueItems, faults |-> GrowFaults, new_faults |-> NewFaults]

\* one owner, one queue
QueueInitOne ==
    /\ fs = EmptyFs
    /\ mq_handles = {1}
    /\ mq = [h \in Handles |-> DeadQueue]
    /\ mq_pushed = [h \in Handles |-> <<>>]
    /\ mq_all_ok = [h \in Handles |-> TRUE]
    /\ mq_news = [h \in Handles |-> 0]
    /\ mq_env = [items |-> QueueItems, faults |-> GrowFaults, new_faults |-> NewFaults]

\* two queues held at once, as two scans over one cache directory hold them
QueueInitTwo ==
    /\ fs = EmptyFs
    /\ mq_handles = {1, 2}
    /\ mq = [h \in Handles |-> DeadQueue]
    /\ mq_pushed = [h \in Handles |-> <<>>]
    /\ mq_all_ok = [h \in Handles |-> TRUE]
    /\ mq_news = [h \in Handles |-> 0]
    /\ mq_env = [items |-> {PointerData(16, 100)}, faults |-> {"none"},
                 new_faults |-> NewFaults]

MqNew ==
    \E h \in mq_handles, d \in CacheDirs, n \in QueueNames, fault \in mq_env.new_faults :
        /\ ~mq[h].alive
        /\ mq_news[h] < MaxNew
        /\ LET r == MmapQueue_new(fs, d, n, fault)
           IN  /\ fs' = r.w
               /\ mq' = [mq EXCEPT ![h] = r.q]
               /\ mq_pushed' = [mq_pushed EXCEPT ![h] = <<>>]
               /\ mq_all_ok' = [mq_all_ok EXCEPT ![h] = TRUE]
        /\ mq_news' = [mq_news EXCEPT ![h] = @ + 1]
        /\ UNCHANGED <<mq_handles, mq_env>>
        /\ UNCHANGED notQueue

MqPush ==
    \E h \in mq_handles, item \in mq_env.items, fault \in mq_env.faults :
        /\ mq[h].alive
        /\ Len(mq_pushed[h]) < MaxItems
        /\ LET r == push(fs, mq[h], item, fault)
           IN  /\ fs' = r.w
               /\ mq' = [mq EXCEPT ![h] = r.q]
               /\ mq_pushed' = [mq_pushed EXCEPT ![h] =
                                   IF r.res = "Ok" THEN Append(@, item) ELSE @]
               /\ mq_all_ok' = [mq_all_ok EXCEPT ![h] = @ /\ r.res = "Ok"]
        /\ UNCHANGED <<mq_handles, mq_news, mq_env>>
        /\ UNCHANGED notQueue

MqPushBatch ==
    \E h \in mq_handles, a \in mq_env.items, b \in mq_env.items, fault \in mq_env.faults :
        /\ mq[h].alive
        /\ Len(mq_pushed[h]) + 2 <= MaxItems
        /\ LET r == push_batch(fs, mq[h], <<a, b>>, fault, 0)
           IN  /\ fs' = r.w
               /\ mq' = [mq EXCEPT ![h] = r.q]
               /\ mq_pushed' = [mq_pushed EXCEPT ![h] = @ \o SubSeq(<<a, b>>, 1, r.n)]
               /\ mq_all_ok' = [mq_all_ok EXCEPT ![h] = @ /\ r.res = "Ok"]
        /\ UNCHANGED <<mq_handles, mq_news, mq_env>>
        /\ UNCHANGED notQueue

MqClear ==
    \E h \in mq_handles :
        /\ mq[h].alive
        /\ mq[h].count > 0
        /\ mq' = [mq EXCEPT ![h] = clear(@)]
        /\ mq_pushed' = [mq_pushed EXCEPT ![h] = <<>>]
        /\ UNCHANGED <<fs, mq_handles, mq_all_ok, mq_news, mq_env>>
        /\ UNCHANGED notQueue

MqDrop ==
    \E h \in mq_handles :
        /\ mq[h].alive
        /\ LET r == drop(fs, mq[h])
           IN  /\ fs' = r.w
               /\ mq' = [mq EXCEPT ![h] = r.q]
        /\ UNCHANGED <<mq_handles, mq_pushed, mq_all_ok, mq_news, mq_env>>
        /\ UNCHANGED notQueue

QueueNext == MqNew \/ MqPush \/ MqPushBatch \/ MqClear \/ MqDrop

\* ------------------------------------------------------------------------
\* scanner.rs: memory, pages, the validity predicate
\* ------------------------------------------------------------------------

\* a byte of the model carries ByteBits bits, so that 8 bytes make a u64
ByteBits == WordBits \div 8
BYTE_RADIX == 2 ^ ByteBits
PTR_BYTES == 8

\* log2 of the page size (PAGE_SIZE is read once at start-up)
PageBits == 4
PAGE_SIZE == 2 ^ PageBits

\* the read chunk, in pages (512 KiB in the code)
ChunkPages == 2
CHUNK_SIZE == ChunkPages * PAGE_SIZE

\* ScanRegion { start, end, name } in bytes, given in pages
ScanRegion(first_page, end_page, n) ==
    [start |-> first_page * PAGE_SIZE, end |-> end_page * PAGE_SIZE, name |-> n]

\* byte k (0-based) of the little-endian u64 v
le_byte(v, k) == (v \div (BYTE_RADIX ^ k)) % BYTE_RADIX

\* u64::from_le_bytes of 8 bytes
from_le_bytes(bytes) ==
    bytes[1] + BYTE_RADIX * (bytes[2] + BYTE_RADIX * (bytes[3] + BYTE_RADIX *
    (bytes[4] + BYTE_RADIX * (bytes[5] + BYTE_RADIX * (bytes[6] + BYTE_RADIX *
    (bytes[7] + BYTE_RADIX * bytes[8]))))))

\* value & 0x0000_FFFF_FFFF_FFFF: the lower 6 of the 8 bytes
mask48(value) == value % (BYTE_RADIX ^ 6)

\* valid_ranges.sort_unstable_by_key(|r| r.0): every order of the ranges that
\* ascends by start (ranges of equal start may come out in any order)
RECURSIVE orders_by_start(_, _)
orders_by_start(ranges, idxs) ==
    IF idxs = {}
    THEN {<<>>}
    ELSE UNION { { <<ranges[i]>> \o t : t \in orders_by_start(ranges, idxs \ {i}) } :
                 i \in { j \in idxs : \A k \in idxs : ranges[j][1] <= ranges[k][1] } }
sort_unstable_by_key(ranges) == orders_by_start(ranges, DOMAIN ranges)

\* a merge loop that leaves adjacent ranges apart
RECURSIVE merge_loop_overlap_only(_, _, _, _)
merge_loop_overlap_only(sorted, i, current, merged) ==
    IF i > Len(sorted)
    THEN Append(merged, current)
    ELSE IF sorted[i][1] < current[2]
         THEN merge_loop_overlap_only(sorted, i + 1,
                         <<current[1], Max(current[2], sorted[i][2])>>, merged)
         ELSE merge_loop_overlap_only(sorted, i + 1, sorted[i], Append(merged, current))
\* the merge loop over the sorted ranges: `current` absorbs what touches it
RECURSIVE merge_loop(_, _, _, _)
merge_loop(sorted, i, current, merged) ==
    IF i > Len(sorted)
    THEN Append(merged, current)
    ELSE IF sorted[i][1] <= current[2]
         THEN merge_loop(sorted, i + 1,
                         <<current[1], Max(current[2], sorted[i][2])>>, merged)
         ELSE merge_loop(sorted, i + 1, sorted[i], Append(merged, current))

\* the valid_ranges scan_all_pointers may build from its regions: sorted by
\* start, overlaps merged, one result for each order the sort may leave
build_valid_ranges(regions) ==
    LET ranges == [i \in 1..Len(regions) |-> <<regions[i].start, regions[i].end>>]
    IN  IF ranges = <<>>
        THEN {<<>>}
        ELSE { merge_loop(sorted, 2, sorted[1], <<>>) :
               sorted \in sort_unstable_by_key(ranges) }

\* slice::binary_search_by(..).is_ok() over [lo, hi), 0-based
RECURSIVE range_search(_, _, _, _)
range_search(valid_ranges, masked, lo, hi) ==
    IF lo >= hi
    THEN FALSE
    ELSE LET mid == lo + (hi - lo) \div 2
             r == valid_ranges[mid + 1]
         IN  IF masked < r[1]
             THEN range_search(valid_ranges, masked, lo, mid)
             ELSE IF masked >= r[2]
             THEN range_search(valid_ranges, masked, mid + 1, hi)
             ELSE TRUE

\* is_valid_pointer
is_valid_pointer(value, valid_ranges) ==
    LET masked == mask48(value)
    IN  IF valid_ranges = <<>>
        THEN FALSE
        ELSE IF masked < valid_ranges[1][1]
                \/ masked >= valid_ranges[Len(valid_ranges)][2]
        THEN FALSE
        ELSE range_search(valid_ranges, masked, 0, Len(valid_ranges))

\* ------------------------------------------------------------------------
\* The valid ranges and is_valid_pointer as functions under test
\* ------------------------------------------------------------------------

MaxRegions == 3

\* region bounds: 0x1000 .. 0x6000
RangePoints == { 4096 * k : k \in 1..6 }

\* every well-formed region [start, end) between two of the points
RangeRegions ==
    { [start |-> a, end |-> b, name |-> "r"] : a, b \in RangePoints } \ 
    { r \in [start : RangePoints, end : RangePoints, name : {"r"}] : r.start >= r.end }

\* region lists in any order: unsorted, overlapping, nested, adjacent, repeated
RangeRegionLists == UNION { [1..n -> RangeRegions] : n \in 0..MaxRegions }

\* at, just below and inside every bound, plain and with a tag in the top bytes
QueryValues ==
    UNION { { p - 1, p, p + 1280, p + 1280 + 3 * (BYTE_RADIX ^ 6) } : p \in RangePoints }

RangeIdle ==
    /\ vr_pc = "idle"
    /\ vr_in = <<>>
    /\ vr_ranges = <<>>
    /\ vr_value = 0
    /\ vr_out = FALSE

RangeInit ==
    /\ vr_in \in RangeRegionLists
    /\ vr_pc = "build"
    /\ vr_ranges = <<>>
    /\ vr_value = 0
    /\ vr_out = FALSE

\* scan_all_pointers builds valid_ranges from its regions
VrBuild ==
    /\ vr_pc = "build"
    /\ vr_ranges' \in build_valid_ranges(vr_in)
    /\ vr_pc' = "ready"
    /\ UNCHANGED <<vr_in, vr_value, vr_out>>
    /\ UNCHANGED notRange

\* scan_buffer_for_pointers asks is_valid_pointer about one value
VrAsk ==
    /\ vr_pc = "ready"
    /\ \E v \in QueryValues :
           /\ vr_value' = v
           /\ vr_out' = is_valid_pointer(v, vr_ranges)
    /\ vr_pc' = "asked"
    /\ UNCHANGED <<vr_in, vr_ranges>>
    /\ UNCHANGED notRange

RangeNext == VrBuild \/ VrAsk

\* PageStatusBitmap::new(read_size, base): one bit per page of the buffer
bitmap_num_pages(read_size) == (read_size + PAGE_SIZE - 1) \div PAGE_SIZE

\* the aligned offsets of one page slice: (0..=scan_limit).step_by(step)
page_offsets(scan_limit, step) ==
    [k \in 1..(scan_limit \div step + 1) |-> (k - 1) * step]

\* the hits of one page of the buffer, in offset order
scan_page(buffer, base_addr, align, valid_ranges, page_idx) ==
    LET page_start_idx == page_idx * PAGE_SIZE
        page_end_idx == Min(page_start_idx + PAGE_SIZE, Len(buffer))
        page_len == page_end_idx - page_start_idx
    IN  IF page_start_idx >= page_end_idx \/ page_len < PTR_BYTES
        THEN <<>>
        ELSE LET offs == page_offsets(page_len - PTR_BYTES, align)
                 value_at(offset) ==
                     from_le_bytes(SubSeq(buffer, page_start_idx + offset + 1,
                                          page_start_idx + offset + PTR_BYTES))
                 hits == SelectSeq(offs,
                             LAMBDA offset : is_valid_pointer(value_at(offset), valid_ranges))
             IN  [k \in 1..Len(hits) |->
                     PointerData(base_addr + page_start_idx + hits[k],
                                 value_at(hits[k]))]

\* scan_chunk_for_pointers: page_ok[p + 1] is page_bitmap.is_page_success(p)
RECURSIVE scan_pages(_, _, _, _, _, _)
scan_pages(buffer, base_addr, align, valid_ranges, page_ok, page_idx) ==
    IF page_idx >= Len(page_ok)
    THEN <<>>
    ELSE (IF page_ok[page_idx + 1]
          THEN scan_page(buffer, base_addr, align, valid_ranges, page_idx)
          ELSE <<>>)
         \o scan_pages(buffer, base_addr, align, valid_ranges, page_ok, page_idx + 1)

scan_chunk_for_pointers(buffer, base_addr, align, valid_ranges, page_ok) ==
    IF Len(buffer) < PTR_BYTES
    THEN <<>>
    ELSE scan_pages(buffer, base_addr, align, valid_ranges, page_ok, 0)

\* ------------------------------------------------------------------------
\* The target process: its memory and what the driver can read of it
\* ------------------------------------------------------------------------

\* pages of target memory the model holds
MemPages == 8
MemSize == MemPages * PAGE_SIZE

\* the bytes of an image: each placement <<addr, value>> stores a
\* little-endian u64, every other byte is zero
ImageBytes(placements) ==
    [a1 \in 1..MemSize |->
        LET a == a1 - 1
        IN  IF \E pl \in placements : pl[1] <= a /\ a < pl[1] + PTR_BYTES
            THEN LET pl == CHOOSE x \in placements : x[1] <= a /\ a < x[1] + PTR_BYTES
                 IN  le_byte(pl[2], a - pl[1])
            ELSE 0]

\* a tag in the two top bytes of a pointer, lost by the 48-bit mask
TAG == 3 * (BYTE_RADIX ^ 6)

\* regions: A = pages [1,3), B = pages [3,4) (adjacent to A), C = pages [5,8)
RegionA == ScanRegion(1, 3, "A")
RegionB == ScanRegion(3, 4, "B")
RegionC == ScanRegion(5, 8, "C")

\* pointers at the start of a region, inside a page, at the last slot of a
\* page, tagged, into a gap, and at the first slot of a second chunk
Image1 ==
    ImageBytes({ <<PAGE_SIZE, 5 * PAGE_SIZE + 8>>,
                 <<PAGE_SIZE + 8, PAGE_SIZE + 4>>,
                 <<3 * PAGE_SIZE - 8, TAG + 3 * PAGE_SIZE>>,
                 <<3 * PAGE_SIZE, 4 * PAGE_SIZE>>,
                 <<5 * PAGE_SIZE + 8, PAGE_SIZE>>,
                 <<7 * PAGE_SIZE, 2 * PAGE_SIZE + 1>> })

\* pointers that straddle a page boundary and a chunk boundary
Image2 ==
    ImageBytes({ <<2 * PAGE_SIZE - 4, PAGE_SIZE + 8>>,
                 <<3 * PAGE_SIZE + 4, 6 * PAGE_SIZE>>,
                 <<6 * PAGE_SIZE, 3 * PAGE_SIZE + 8>>,
                 <<7 * PAGE_SIZE - 4, PAGE_SIZE>> })

\* read_memory_unified on [addr, addr + size): "Err" on a hard failure, else
\* the bytes and the per-page success bits
read_memory_unified(env, addr, size) ==
    IF addr \in env.fail_chunks
    THEN [res |-> "Err", buffer |-> <<>>, page_ok |-> <<>>]
    ELSE [res |-> "Ok",
          buffer |-> [k \in 1..size |->
                         IF ((addr + k - 1) \div PAGE_SIZE) \in env.bad_pages
                         THEN 0 ELSE env.mem[addr + k]],
          page_ok |-> [p \in 1..bitmap_num_pages(size) |->
                         ((addr \div PAGE_SIZE) + p - 1) \notin env.bad_pages]]

\* a chunk loop that gives up the rest of the region when a read fails
scan_one_chunk_abort(env, region, current_addr, align, valid_ranges) ==
    LET read_size == Min(CHUNK_SIZE, region.end - current_addr)
        rd == read_memory_unified(env, current_addr, read_size)
    IN  [found |-> IF rd.res = "Ok"
                   THEN scan_chunk_for_pointers(rd.buffer, current_addr, align,
                                                valid_ranges, rd.page_ok)
                   ELSE <<>>,
         next_addr |-> IF rd.res = "Ok" THEN current_addr + read_size
                       ELSE region.end]

\* one iteration of the chunk loop of scan_region_for_pointers at
\* current_addr: the records found and the next address
scan_one_chunk(env, region, current_addr, align, valid_ranges) ==
    LET read_size == Min(CHUNK_SIZE, region.end - current_addr)
        rd == read_memory_unified(env, current_addr, read_size)
    IN  [found |-> IF rd.res = "Ok"
                   THEN scan_chunk_for_pointers(rd.buffer, current_addr, align,
                                                valid_ranges, rd.page_ok)
                   ELSE <<>>,
         next_addr |-> current_addr + read_size]

\* ------------------------------------------------------------------------
\* scanner.rs: sorted runs on disk and their k-way merge
\* ------------------------------------------------------------------------

\* records the writer buffers before it sorts and spills (10_000_000 in the code)
BatchThreshold == 2
\* records per push_batch of the merge (20_000 in the code)
MergeBatch == 2
\* mpsc::sync_channel::<Vec<PointerData>>(4): the batches the channel buffers
ChannelCap == 4

\* the least value among the records at the indices idxs
min_value(buffer, idxs) ==
    LET i == CHOOSE j \in idxs : \A k \in idxs : buffer[j].value <= buffer[k].value
    IN  buffer[i].value

\* par_sort_unstable_by(|a, b| a.value.cmp(&b.value)): every order of the
\* records that ascends by value (equal values may come out in any order)
RECURSIVE sorted_orders(_, _)
sorted_orders(buffer, idxs) ==
    IF idxs = {}
    THEN {<<>>}
    ELSE UNION { { <<buffer[i]>> \o t : t \in sorted_orders(buffer, idxs \ {i}) } :
                 i \in { j \in idxs : buffer[j].value = min_value(buffer, idxs) } }
par_sort_unstable_by_value(buffer) == sorted_orders(buffer, DOMAIN buffer)

\* the raw bytes of a slice of PointerData, as words
RECURSIVE raw_words(_)
raw_words(records) ==
    IF records = <<>> THEN <<>>
    ELSE <<Head(records).address, Head(records).value>> \o raw_words(Tail(records))

\* dir.join(format!("scan_chunk_{pid}_{uuid}.tmp")): a name never used before
temp_path(w, dir) == <<dir, "scan_chunk", w.next, "tmp">>

\* a spill that writes the buffer in arrival order
write_unsorted_temp_file(w, buffer, sorted, dir, fault, written) ==
    LET path == temp_path(w, dir)
        o == open_create_truncate(w, path)
    IN  [w |-> [o.w EXCEPT !.inodes[o.ino] =
                    [len |-> Len(buffer) * 2 * WORD, words |-> raw_words(buffer)]],
         path |-> path, res |-> "Ok"]

\* sort_and_write_temp_file, `sorted` being the order the sort left;
\* fault names the call that fails: "none", "create" (File::create), "write"
\* (write_all or flush; `written` words of the slice are in the file once
\* the BufWriter has been dropped)
sort_and_write_temp_file(w, buffer, sorted, dir, fault, written) ==
    LET path == temp_path(w, dir)
        o == open_create_truncate(w, path)
        words == raw_words(sorted)
    IN  IF fault = "create"
        THEN [w |-> w, path |-> path, res |-> "Err"]
        ELSE IF fault = "write"
        THEN [w |-> [o.w EXCEPT !.inodes[o.ino] =
                        [len |-> written * WORD, words |-> SubSeq(words, 1, written)]],
              path |-> path, res |-> "Err"]
        ELSE [w |-> [o.w EXCEPT !.inodes[o.ino] =
                        [len |-> Len(words) * WORD, words |-> words]],
              path |-> path, res |-> "Ok"]

\* slice::from_raw_parts over the mapping of a temp file
temp_records(w, path) ==
    LET f == w.inodes[w.dir[InodeOf(w, path)].ino]
        count == f.len \div (2 * WORD)
    IN  [k \in 1..count |-> PointerData(f.words[2 * k - 1], f.words[2 * k])]

\* itertools kmerge_by(|a, b| a.value < b.value): a binary heap of
\* HeadTail { head, tail }, ordered by the head
kmerge_pred(a, b) == a.head.value < b.head.value

swap(heap, i, j) ==
    [heap EXCEPT ![i + 1] = heap[j + 1], ![j + 1] = heap[i + 1]]

RECURSIVE sift_down(_, _)
sift_down(heap, pos) ==
    LET left == 2 * pos + 1
    IN  IF left + 1 < Len(heap)
        THEN LET child == left + (IF kmerge_pred(heap[left + 2], heap[left + 1])
                                  THEN 1 ELSE 0)
             IN  IF ~kmerge_pred(heap[child + 1], heap[pos + 1])
                 THEN heap
                 ELSE sift_down(swap(heap, pos, child), child)
        ELSE IF left + 1 = Len(heap) /\ kmerge_pred(heap[left + 1], heap[pos + 1])
        THEN swap(heap, pos, left)
        ELSE heap

RECURSIVE heapify(_, _)
heapify(heap, i) ==
    IF i < 0 THEN heap ELSE heapify(sift_down(heap, i), i - 1)

\* the heap of the non-empty iterators
kmerge_new(iterators) ==
    LET nonempty == SelectSeq(iterators, LAMBDA it : it # <<>>)
        heap == [k \in 1..Len(nonempty) |->
                    [head |-> Head(nonempty[k]), tail |-> Tail(nonempty[k])]]
    IN  heapify(heap, Len(heap) \div 2 - 1)

\* KMergeBy::next until None: the merged stream
RECURSIVE kmerge_by(_)
kmerge_by(heap) ==
    IF heap = <<>>
    THEN <<>>
    ELSE LET result == heap[1].head
             advanced ==
                 IF heap[1].tail # <<>>
                 THEN [heap EXCEPT ![1] = [head |-> Head(heap[1].tail),
                                           tail |-> Tail(heap[1].tail)]]
                 ELSE \* swap_remove(0): the last entry takes the root's place
                      IF Len(heap) = 1 THEN <<>>
                      ELSE [k \in 1..(Len(heap) - 1) |->
                               IF k = 1 THEN heap[Len(heap)] ELSE heap[k]]
         IN  <<result>> \o kmerge_by(sift_down(advanced, 0))

\* the push loop of the merge: push_batch every MergeBatch records, and once
\* more for what remains; r is the outcome of the push_batch just made
RECURSIVE merge_push(_, _, _, _)
RECURSIVE merge_push_next(_, _, _, _)
merge_push_next(r, q, rest, fault) ==
    IF r.res # "Ok"
    THEN [w |-> r.w, q |-> r.q, res |-> "Err"]
    ELSE merge_push(r.w, r.q, rest,
                    IF r.q.capacity # q.capacity THEN "none" ELSE fault)
\* a push loop without the push of what remains after the last full batch
merge_push_full_batches(w, q, stream, fault) ==
    IF Len(stream) < MergeBatch
    THEN [w |-> w, q |-> q, res |-> "Ok"]
    ELSE merge_push_next(
             push_batch(w, q, SubSeq(stream, 1, MergeBatch), fault, 0),
             q, SubSeq(stream, MergeBatch + 1, Len(stream)), fault)

merge_push(w, q, stream, fault) ==
    IF stream = <<>>
    THEN [w |-> w, q |-> q, res |-> "Ok"]
    ELSE merge_push_next(
             push_batch(w, q, SubSeq(stream, 1, Min(MergeBatch, Len(stream))),
                        fault, 0),
             q, SubSeq(stream, Min(MergeBatch, Len(stream)) + 1, Len(stream)),
             fault)

RECURSIVE remove_files(_, _)
remove_files(w, files) ==
    IF files = <<>> THEN w
    ELSE remove_files(remove_file(w, Head(files)), Tail(files))

\* the end of the merge, r being the outcome of the push loop: a failed push
\* drops the local queue (its file is removed, the runs stay), else the runs
\* are removed and the queue returned
merge_result(r, files) ==
    IF r.res # "Ok"
    THEN [w |-> drop(r.w, r.q).w, q |-> DeadQueue, res |-> "Err"]
    ELSE [w |-> remove_files(r.w, files), q |-> r.q, res |-> "Ok"]

\* the merge once the output queue is made, nq being the outcome of
\* MmapQueue::new
merge_into(nq, merged_stream, files, fault) ==
    IF nq.res # "Ok"
    THEN [w |-> nq.w, q |-> DeadQueue, res |-> "Err"]
    ELSE merge_result(merge_push(nq.w, nq.q, merged_stream, fault), files)

\* what opening and mapping the runs can do: succeed, or fail in File::open
\* or in Mmap::map
TempFaults == {"none", "open", "map"}

\* merge_temp_files_kway; temp_fault, new_fault and fault are the outcome of
\* mapping the runs, of MmapQueue::new and of the first grow of the output
\* queue. File::open(path).expect(..) and Mmap::map(&file).expect(..) panic
\* on a failing call and on a run that is gone, and the panic unwinds before
\* the output queue is made; an empty run is mapped and gives no record
merge_temp_files_kway(w, files, out_dir, out_name, temp_fault, new_fault, fault) ==
    LET mapped ==
            /\ temp_fault = "none"
            /\ \A k \in 1..Len(files) : FileExists(w, files[k])
    IN  IF ~mapped
        THEN [w |-> w, q |-> DeadQueue, res |-> "Panic"]
        ELSE merge_into(MmapQueue_new(w, out_dir, out_name, new_fault),
                        kmerge_by(kmerge_new([k \in 1..Len(files) |->
                                                 temp_records(w, files[k])])),
                        files, fault)

\* ------------------------------------------------------------------------
\* scan_all_pointers as a process: region tasks, the writer thread, main
\* ------------------------------------------------------------------------

\* `if done % 50 == 0 { progress_callback(..) }`
\* (50 in the code)
PROGRESS_EVERY == 2

\* a region task: its position, the loop's current_addr, region_pointers,
\* and the closure's locals `found` and `done` once it has taken them
NoTask == [st |-> "pending", cur |-> 0, found |-> <<>>, seen_found |-> 0, seen_done |-> 0]
NoScanRet == [returned |-> FALSE, ok |-> FALSE, err |-> "", queue |-> DeadQueue]
\* the writer thread: its position, the batch `chunk` the loop has taken,
\* `buffer`, `temp_files`, and the Result it returns
WriterStart ==
    [st |-> "recv", chunk |-> <<>>, buffer |-> <<>>, temp_files |-> <<>>, res |-> "Ok"]

ScanIdle ==
    /\ sc_pc = "idle"
    /\ sc_in = [regions |-> <<>>, align |-> 1, cache_dir |-> "cache",
                env |-> [mem |-> <<>>, bad_pages |-> {}, fail_chunks |-> {},
                         poisoned |-> FALSE]]
    /\ sc_valid_ranges = <<>>
    /\ sc_pred = FALSE
    /\ sc_pred_when = "never"
    /\ sc_cancelled = FALSE
    /\ sc_task = <<>>
    /\ sc_chan = <<>>
    /\ sc_rx_alive = FALSE
    /\ sc_writer = WriterStart
    /\ sc_total_found = 0
    /\ sc_completed = 0
    /\ sc_progress = <<>>
    /\ sc_ret = NoScanRet
    /\ sc_pool = 0
    /\ sc_bound = 0
    /\ sc_binds = 0
    /\ sc_region_pid = <<>>

\* the pid bound when the scan starts, and the pids other threads may bind
StartPids == {7}
ScanPids == {7, 9}
\* most binds by other threads while one scan runs
MaxScanBinds == 1

\* the region lists, alignments and driver behaviours the runs are given
RegionLists == { <<>>, <<RegionA, RegionB>>, <<RegionC, RegionA, RegionB>> }
Aligns == { 1, 4, 8, 2 * PAGE_SIZE }
ScanEnvs ==
    { [mem |-> Image1, bad_pages |-> {}, fail_chunks |-> {}, poisoned |-> FALSE],
      [mem |-> Image2, bad_pages |-> {}, fail_chunks |-> {}, poisoned |-> FALSE],
      [mem |-> Image1, bad_pages |-> {2}, fail_chunks |-> {5 * PAGE_SIZE},
       poisoned |-> FALSE],
      [mem |-> Image1, bad_pages |-> {}, fail_chunks |-> {}, poisoned |-> TRUE] }

\* the calls the runs are given: the lists of up to two regions with every
\* alignment and driver behaviour, the list of three with pointer-sized and
\* two-page alignment over Image1 and a lock that is not poisoned
ScanInputs ==
    { in \in [regions : RegionLists, align : Aligns, cache_dir : {"cache"},
              env : ScanEnvs] :
        Len(in.regions) > 2 =>
            /\ in.align \in {8, 2 * PAGE_SIZE}
            /\ in.env.mem = Image1
            /\ ~in.env.poisoned
            /\ in.align = 8 \/ in.env.fail_chunks = {} }

\* the state when scan_all_pointers has spawned the writer and is about to
\* run the region tasks
ScanInit ==
    /\ sc_pc = "scan"
    /\ sc_in \in ScanInputs
    /\ sc_valid_ranges \in build_valid_ranges(sc_in.regions)
    /\ sc_pred = FALSE
    /\ sc_pred_when = "never"
    /\ sc_cancelled = FALSE
    /\ sc_task = [i \in DOMAIN sc_in.regions |-> NoTask]
    /\ sc_chan = <<>>
    /\ sc_rx_alive = TRUE
    /\ sc_writer = WriterStart
    /\ sc_total_found = 0
    /\ sc_completed = 0
    /\ sc_progress = <<>>
    /\ sc_ret = NoScanRet
    /\ sc_pool = Len(sc_in.regions) + 1
    /\ sc_bound \in StartPids
    /\ sc_binds = 0
    /\ sc_region_pid = [i \in DOMAIN sc_in.regions |-> 0]

\* the pool of the fair specification: fewer threads than regions
PoolThreads == 1

\* pointers in every region: two in A, one in B, one in C
Image3 ==
    ImageBytes({ <<PAGE_SIZE, 5 * PAGE_SIZE>>,
                 <<PAGE_SIZE + 8, 3 * PAGE_SIZE>>,
                 <<3 * PAGE_SIZE, PAGE_SIZE>>,
                 <<5 * PAGE_SIZE, PAGE_SIZE + 8>> })

PoolEnvs ==
    { [mem |-> Image1, bad_pages |-> {}, fail_chunks |-> {}, poisoned |-> FALSE],
      [mem |-> Image3, bad_pages |-> {}, fail_chunks |-> {}, poisoned |-> FALSE],
      [mem |-> Image3, bad_pages |-> {2}, fail_chunks |-> {5 * PAGE_SIZE},
       poisoned |-> FALSE] }

\* six regions of one page, with two pointers in the first and one in each
\* of the others: more batches than the channel buffers
PoolRegions ==
    << ScanRegion(1, 2, "R1"), ScanRegion(2, 3, "R2"), ScanRegion(3, 4, "R3"),
       ScanRegion(4, 5, "R4"), ScanRegion(5, 6, "R5"), ScanRegion(6, 7, "R6") >>
Image4 ==
    ImageBytes({ <<PAGE_SIZE, 6 * PAGE_SIZE>>,
                 <<PAGE_SIZE + 8, 2 * PAGE_SIZE>>,
                 <<2 * PAGE_SIZE, 3 * PAGE_SIZE>>,
                 <<3 * PAGE_SIZE, 4 * PAGE_SIZE>>,
                 <<4 * PAGE_SIZE, 5 * PAGE_SIZE>>,
                 <<5 * PAGE_SIZE, PAGE_SIZE>>,
                 <<6 * PAGE_SIZE, PAGE_SIZE + 8>> })

\* the calls the pool runs are given
PoolInputs ==
    [regions : RegionLists, align : {8}, cache_dir : {"cache"}, env : PoolEnvs]
    \cup { [regions |-> PoolRegions, align |-> 8, cache_dir |-> "cache",
            env |-> [mem |-> Image4, bad_pages |-> {}, fail_chunks |-> {},
                     poisoned |-> FALSE]] }

\* the same call on a pool of PoolThreads threads
ScanInitPool ==
    /\ sc_pc = "scan"
    /\ sc_in \in PoolInputs
    /\ sc_valid_ranges \in build_valid_ranges(sc_in.regions)
    /\ sc_pred = FALSE
    /\ sc_pred_when = "never"
    /\ sc_cancelled = FALSE
    /\ sc_task = [i \in DOMAIN sc_in.regions |-> NoTask]
    /\ sc_chan = <<>>
    /\ sc_rx_alive = TRUE
    /\ sc_writer = WriterStart
    /\ sc_total_found = 0
    /\ sc_completed = 0
    /\ sc_progress = <<>>
    /\ sc_ret = NoScanRet
    /\ sc_pool = PoolThreads
    /\ sc_bound \in StartPids
    /\ sc_binds = 0
    /\ sc_region_pid = [i \in DOMAIN sc_in.regions |-> 0]

TaskFinished(t) == t.st \in {"done", "err_cancelled", "err_disconnected", "skipped"}
TaskFailed(t) == t.st \in {"err_cancelled", "err_disconnected"}

\* the caller's predicate turns true
ScCallerCancel ==
    /\ sc_pc \in {"scan", "join"}
    /\ ~sc_pred
    /\ sc_pred' = TRUE
    /\ sc_pred_when' =
         IF \E i \in DOMAIN sc_task : sc_task[i].st = "pending" THEN "unstarted"
         ELSE IF \E i \in DOMAIN sc_task : sc_task[i].st = "running" THEN "scanning"
         ELSE "late"
    /\ UNCHANGED <<sc_pc, sc_in, sc_valid_ranges, sc_pool, sc_bound, sc_binds, sc_region_pid, sc_cancelled, sc_task, sc_chan, sc_rx_alive,
                   sc_writer, sc_total_found, sc_completed, sc_progress, sc_ret>>
    /\ UNCHANGED <<fs, notScan>>

\* the pool threads that are inside a region task (about to take the lock,
\* scanning, or in send)
BusyWorkers ==
    { i \in DOMAIN sc_task :
        sc_task[i].st \in {"lock", "running", "send", "add_found", "count", "report"} }

\* some thread of the pool is free to take a job
pool_has_idle_worker == Cardinality(BusyWorkers) < sc_pool

\* a pool thread takes a region task: `cancelled.load() || check_cancelled()`
\* and, when it is true, `cancelled.store(true)` and the Err of the task
ScTaskStart(i) ==
    /\ sc_pc = "scan"
    /\ sc_task[i].st = "pending"
    /\ pool_has_idle_worker
    /\ IF sc_cancelled \/ sc_pred
       THEN /\ sc_cancelled' = TRUE
            /\ sc_task' = [sc_task EXCEPT ![i].st = "err_cancelled"]
       ELSE /\ sc_cancelled' = sc_cancelled
            /\ sc_task' = [sc_task EXCEPT ![i].st = "lock"]
    /\ UNCHANGED <<sc_pc, sc_in, sc_valid_ranges, sc_pool, sc_bound, sc_binds,
                   sc_region_pid, sc_pred, sc_pred_when, sc_chan, sc_rx_alive,
                   sc_writer, sc_total_found, sc_completed, sc_progress, sc_ret>>
    /\ UNCHANGED <<fs, notScan>>

\* DRIVER_MANAGER.read() at the entry of scan_region_for_pointers: a poisoned
\* lock is the Err of the function, which the task only logs; else the task
\* holds the read guard and reads from the process bound now
ScTaskLock(i) ==
    /\ sc_pc = "scan"
    /\ sc_task[i].st = "lock"
    /\ sc_task' = [sc_task EXCEPT
                     ![i] = IF sc_in.env.poisoned
                            THEN [NoTask EXCEPT !.st = "done"]
                            ELSE [NoTask EXCEPT !.st = "running",
                                                !.cur = sc_in.regions[i].start]]
    /\ sc_region_pid' = IF sc_in.env.poisoned
                        THEN sc_region_pid
                        ELSE [sc_region_pid EXCEPT ![i] = sc_bound]
    /\ UNCHANGED <<sc_pc, sc_in, sc_valid_ranges, sc_pool, sc_bound, sc_binds,
                   sc_pred, sc_pred_when, sc_cancelled, sc_chan, sc_rx_alive,
                   sc_writer, sc_total_found, sc_completed, sc_progress, sc_ret>>
    /\ UNCHANGED <<fs, notScan>>

\* one test of the chunk loop of scan_region_for_pointers and, if it passes,
\* one chunk; when the loop ends the function returns its records and drops
\* the read guard, and the closure goes on to send them or to count the region
ScTaskChunk(i) ==
    LET t == sc_task[i]
        region == sc_in.regions[i]
    IN  /\ sc_pc = "scan"
        /\ t.st = "running"
        /\ IF t.cur < region.end /\ ~sc_cancelled
           THEN LET c == scan_one_chunk(sc_in.env, region, t.cur, sc_in.align,
                                        sc_valid_ranges)
                IN  sc_task' = [sc_task EXCEPT ![i].cur = c.next_addr,
                                               ![i].found = t.found \o c.found]
           ELSE IF t.found # <<>>
           THEN sc_task' = [sc_task EXCEPT ![i].st = "send"]
           ELSE sc_task' = [sc_task EXCEPT ![i].st = "count"]
        /\ UNCHANGED <<sc_pc, sc_in, sc_valid_ranges, sc_pool, sc_bound, sc_binds,
                       sc_region_pid, sc_pred, sc_pred_when, sc_cancelled, sc_chan,
                       sc_rx_alive, sc_writer, sc_total_found, sc_completed,
                       sc_progress, sc_ret>>
        /\ UNCHANGED <<fs, notScan>>

\* completed_regions.fetch_add(1) of either branch of the closure: the task
\* takes `done` and goes on to report when it is a multiple of PROGRESS_EVERY
ScTaskCount(i) ==
    /\ sc_pc = "scan"
    /\ sc_task[i].st = "count"
    /\ sc_completed' = sc_completed + 1
    /\ sc_task' = [sc_task EXCEPT
                     ![i].st = IF (sc_completed + 1) % PROGRESS_EVERY = 0
                               THEN "report" ELSE "done",
                     ![i].seen_done = IF (sc_completed + 1) % PROGRESS_EVERY = 0
                                      THEN sc_completed + 1 ELSE 0,
                     ![i].seen_found = IF (sc_completed + 1) % PROGRESS_EVERY = 0
                                       THEN @ ELSE 0]
    /\ UNCHANGED <<sc_pc, sc_in, sc_valid_ranges, sc_pool, sc_bound, sc_binds,
                   sc_region_pid, sc_pred, sc_pred_when, sc_cancelled, sc_chan,
                   sc_rx_alive, sc_writer, sc_total_found, sc_progress, sc_ret>>
    /\ UNCHANGED <<fs, notScan>>

\* progress_callback(done, total_regions, found): a task that sent records
\* reports the `found` it took, one that found none loads total_found now
ScTaskReport(i) ==
    LET t == sc_task[i]
    IN  /\ sc_pc = "scan"
        /\ t.st = "report"
        /\ sc_progress' =
             Append(sc_progress,
                    <<t.seen_done, Len(sc_in.regions),
                      IF t.found # <<>> THEN t.seen_found ELSE sc_total_found>>)
        /\ sc_task' = [sc_task EXCEPT ![i].st = "done", ![i].seen_done = 0,
                                      ![i].seen_found = 0]
        /\ UNCHANGED <<sc_pc, sc_in, sc_valid_ranges, sc_pool, sc_bound, sc_binds,
                       sc_region_pid, sc_pred, sc_pred_when, sc_cancelled, sc_chan,
                       sc_rx_alive, sc_writer, sc_total_found, sc_completed, sc_ret>>
        /\ UNCHANGED <<fs, notScan>>

\* a channel without a bound
channel_unbounded(chan) == TRUE

\* mpsc::sync_channel(4): a send goes through only while the buffer holds
\* fewer batches than its bound
channel_has_room(chan) == Len(chan) < ChannelCap

\* tx.send(pointers): fails once the receiver is gone, waits while the
\* channel is full
ScTaskSend(i) ==
    LET t == sc_task[i]
    IN  /\ sc_pc = "scan"
        /\ t.st = "send"
        /\ IF ~sc_rx_alive
           THEN /\ sc_task' = [sc_task EXCEPT ![i].st = "err_disconnected"]
                /\ UNCHANGED sc_chan
           ELSE /\ channel_has_room(sc_chan)
                /\ sc_chan' = Append(sc_chan, t.found)
                /\ sc_task' = [sc_task EXCEPT ![i].st = "add_found"]
        /\ UNCHANGED <<sc_pc, sc_in, sc_valid_ranges, sc_pool, sc_bound, sc_binds,
                       sc_region_pid, sc_pred, sc_pred_when, sc_cancelled,
                       sc_rx_alive, sc_writer, sc_total_found, sc_completed,
                       sc_progress, sc_ret>>
        /\ UNCHANGED <<fs, notScan>>

\* total_found.fetch_add(count) + count: the task takes `found`
ScTaskAddFound(i) ==
    LET t == sc_task[i]
        count == Len(t.found)
    IN  /\ sc_pc = "scan"
        /\ t.st = "add_found"
        /\ sc_total_found' = sc_total_found + count
        /\ sc_task' = [sc_task EXCEPT ![i].st = "count",
                                      ![i].seen_found = sc_total_found + count]
        /\ UNCHANGED <<sc_pc, sc_in, sc_valid_ranges, sc_pool, sc_bound, sc_binds,
                       sc_region_pid, sc_pred, sc_pred_when, sc_cancelled, sc_chan,
                       sc_rx_alive, sc_writer, sc_completed, sc_progress, sc_ret>>
        /\ UNCHANGED <<fs, notScan>>

\* a region task holds DRIVER_MANAGER.read() from its entry to
\* scan_region_for_pointers until that function returns
ReadGuardHeld == \E i \in DOMAIN sc_task : sc_task[i].st = "running"

\* jni_bind_proc on another thread while the scan runs: it takes
\* DRIVER_MANAGER.write(), which waits for the read guards, and binds pid
ScBind ==
    \E pid \in ScanPids :
        /\ sc_pc = "scan"
        /\ ~sc_in.env.poisoned
        /\ ~ReadGuardHeld
        /\ sc_binds < MaxScanBinds
        /\ pid # sc_bound
        /\ sc_bound' = pid
        /\ sc_binds' = sc_binds + 1
        /\ UNCHANGED <<sc_pc, sc_in, sc_valid_ranges, sc_pool, sc_region_pid, sc_pred, sc_pred_when,
                       sc_cancelled, sc_task, sc_chan, sc_rx_alive, sc_writer,
                       sc_total_found, sc_completed, sc_progress, sc_ret>>
        /\ UNCHANGED <<fs, notScan>>

\* try_for_each stops handing out regions once a task has returned Err
ScTaskSkip(i) ==
    /\ sc_pc = "scan"
    /\ sc_task[i].st = "pending"
    /\ \E j \in DOMAIN sc_task : TaskFailed(sc_task[j])
    /\ sc_task' = [sc_task EXCEPT ![i].st = "skipped"]
    /\ UNCHANGED <<sc_pc, sc_in, sc_valid_ranges, sc_pool, sc_bound, sc_binds, sc_region_pid, sc_pred, sc_pred_when, sc_cancelled, sc_chan,
                   sc_rx_alive, sc_writer, sc_total_found, sc_completed,
                   sc_progress, sc_ret>>
    /\ UNCHANGED <<fs, notScan>>

\* try_for_each has returned: drop(tx)
ScDropTx ==
    /\ sc_pc = "scan"
    /\ \A i \in DOMAIN sc_task : TaskFinished(sc_task[i])
    /\ sc_pc' = "join"
    /\ UNCHANGED <<sc_in, sc_valid_ranges, sc_pool, sc_bound, sc_binds, sc_region_pid, sc_pred, sc_pred_when, sc_cancelled, sc_task, sc_chan,
                   sc_rx_alive, sc_writer, sc_total_found, sc_completed,
                   sc_progress, sc_ret>>
    /\ UNCHANGED <<fs, notScan>>

WriteFaults == {"none", "create", "write"}
\* the words of the buffer in the file after a failing write: any prefix,
\* and all of them when the BufWriter dropped by the `?` flushes what the
\* failed flush left
PartialWrites(buffer) == 0..(2 * Len(buffer))

\* `for mut chunk in rx`: the writer takes the oldest batch of the channel
WrRecv ==
    /\ sc_writer.st = "recv"
    /\ sc_chan # <<>>
    /\ sc_chan' = Tail(sc_chan)
    /\ sc_writer' = [sc_writer EXCEPT !.st = "check", !.chunk = Head(sc_chan)]
    /\ UNCHANGED <<sc_pc, sc_in, sc_valid_ranges, sc_pool, sc_bound, sc_binds,
                   sc_region_pid, sc_pred, sc_pred_when, sc_cancelled, sc_task,
                   sc_rx_alive, sc_total_found, sc_completed, sc_progress, sc_ret>>
    /\ UNCHANGED <<fs, notScan>>

\* the body of the loop: `if cancelled.load() { break; }` drops the batch
\* taken, else the batch is appended to the buffer, which goes to be spilled
\* at the threshold
WrCheck ==
    /\ sc_writer.st = "check"
    /\ IF sc_cancelled
       THEN sc_writer' = [sc_writer EXCEPT !.st = "break", !.chunk = <<>>]
       ELSE LET buffer == sc_writer.buffer \o sc_writer.chunk
            IN  sc_writer' = [sc_writer EXCEPT
                                !.buffer = buffer,
                                !.chunk = <<>>,
                                !.st = IF Len(buffer) >= BatchThreshold
                                       THEN "sort" ELSE "recv"]
    /\ UNCHANGED <<sc_pc, sc_in, sc_valid_ranges, sc_pool, sc_bound, sc_binds,
                   sc_region_pid, sc_pred, sc_pred_when, sc_cancelled, sc_task,
                   sc_chan, sc_rx_alive, sc_total_found, sc_completed,
                   sc_progress, sc_ret>>
    /\ UNCHANGED <<fs, notScan>>

\* the receiver is dropped, with the batches still in the channel, when the
\* loop is left by `break` (the writer goes on after the loop) and when `?`
\* returns the error of a spill (the thread ends)
WrDropRx ==
    /\ sc_writer.st \in {"break", "fail"}
    /\ sc_rx_alive' = FALSE
    /\ sc_chan' = <<>>
    /\ sc_writer' = [sc_writer EXCEPT
                       !.st = IF sc_writer.st = "break" THEN "tail" ELSE "done"]
    /\ UNCHANGED <<sc_pc, sc_in, sc_valid_ranges, sc_pool, sc_bound, sc_binds,
                   sc_region_pid, sc_pred, sc_pred_when, sc_cancelled, sc_task,
                   sc_total_found, sc_completed, sc_progress, sc_ret>>
    /\ UNCHANGED <<fs, notScan>>

\* sort_and_write_temp_file inside the receive loop: par_sort_unstable_by of
\* the full buffer is a job of the pool that the writer thread waits for,
\* then the file is written; an error is on its way out of the thread
WrSort ==
    /\ sc_writer.st = "sort"
    /\ pool_has_idle_worker
    /\ \E sorted \in par_sort_unstable_by_value(sc_writer.buffer),
          fault \in WriteFaults, written \in PartialWrites(sc_writer.buffer) :
          LET r == sort_and_write_temp_file(fs, sc_writer.buffer, sorted,
                                            sc_in.cache_dir, fault, written)
          IN  /\ fs' = r.w
              /\ sc_writer' =
                   IF r.res = "Ok"
                   THEN [sc_writer EXCEPT !.st = "recv",
                                          !.buffer = <<>>,
                                          !.temp_files = Append(@, r.path)]
                   ELSE [sc_writer EXCEPT !.st = "fail",
                                          !.buffer = sorted,
                                          !.res = "Err"]
    /\ UNCHANGED <<sc_pc, sc_in, sc_valid_ranges, sc_pool, sc_bound, sc_binds,
                   sc_region_pid, sc_pred, sc_pred_when, sc_cancelled, sc_task,
                   sc_chan, sc_rx_alive, sc_total_found, sc_completed,
                   sc_progress, sc_ret>>
    /\ UNCHANGED notScan

\* the channel is empty and the sender dropped: the receive loop ends
WrClosed ==
    /\ sc_writer.st = "recv"
    /\ sc_chan = <<>>
    /\ sc_pc = "join"
    /\ sc_writer' = [sc_writer EXCEPT !.st = "tail"]
    /\ sc_rx_alive' = FALSE
    /\ UNCHANGED <<sc_pc, sc_in, sc_valid_ranges, sc_pool, sc_bound, sc_binds, sc_region_pid, sc_pred, sc_pred_when, sc_cancelled, sc_task,
                   sc_chan, sc_total_found, sc_completed, sc_progress, sc_ret>>
    /\ UNCHANGED <<fs, notScan>>

\* after the loop: spill what remains unless cancelled, return the paths
WrTail ==
    /\ sc_writer.st = "tail"
    /\ IF sc_writer.buffer # <<>> /\ ~sc_cancelled
       THEN \E sorted \in par_sort_unstable_by_value(sc_writer.buffer),
               fault \in WriteFaults, written \in PartialWrites(sc_writer.buffer) :
               LET r == sort_and_write_temp_file(fs, sc_writer.buffer, sorted,
                                                 sc_in.cache_dir, fault, written)
               IN  /\ fs' = r.w
                   /\ sc_writer' =
                        IF r.res = "Ok"
                        THEN [sc_writer EXCEPT !.st = "done", !.buffer = <<>>,
                                               !.temp_files = Append(@, r.path)]
                        ELSE [sc_writer EXCEPT !.st = "done", !.buffer = sorted,
                                               !.res = "Err"]
       ELSE /\ sc_writer' = [sc_writer EXCEPT !.st = "done"]
            /\ fs' = fs
    /\ UNCHANGED <<sc_pc, sc_in, sc_valid_ranges, sc_pool, sc_bound, sc_binds, sc_region_pid, sc_pred, sc_pred_when, sc_cancelled, sc_task,
                   sc_chan, sc_rx_alive, sc_total_found, sc_completed,
                   sc_progress, sc_ret>>
    /\ UNCHANGED notScan

ScanErr(e) == [returned |-> TRUE, ok |-> FALSE, err |-> e, queue |-> DeadQueue]

\* `?` on the queue: Ok(queue) or the I/O error; a panic of the merge
\* unwinds through scan_all_pointers, which then returns nothing
ScReturnQueue(r) ==
    /\ fs' = r.w
    /\ sc_ret' = IF r.res = "Ok"
                 THEN [returned |-> TRUE, ok |-> TRUE, err |-> "", queue |-> r.q]
                 ELSE IF r.res = "Panic"
                 THEN [returned |-> FALSE, ok |-> FALSE, err |-> "panic",
                       queue |-> DeadQueue]
                 ELSE ScanErr("io")

\* a main thread that goes on without waiting for the writer
writer_not_awaited(writer) == TRUE

\* writer_handle.join(): returns once the writer thread has returned
writer_joined(writer) == writer.st = "done"

\* main after drop(tx): join the writer, then return the error, or the empty
\* queue, or the merged queue
ScFinish ==
    /\ sc_pc = "join"
    /\ writer_joined(sc_writer)
    /\ sc_pc' = "done"
    /\ IF \E i \in DOMAIN sc_task : TaskFailed(sc_task[i])
       THEN /\ \E i \in DOMAIN sc_task :
                 /\ TaskFailed(sc_task[i])
                 /\ sc_ret' = ScanErr(IF sc_task[i].st = "err_cancelled"
                                      THEN "Scan cancelled"
                                      ELSE "Writer thread disconnected")
            /\ fs' = fs
       ELSE IF sc_writer.res = "Err"
       THEN /\ sc_ret' = ScanErr("io")
            /\ fs' = fs
       ELSE IF sc_cancelled
       THEN /\ sc_ret' = ScanErr("Scan cancelled during flush")
            /\ fs' = fs
       ELSE IF sc_writer.temp_files = <<>>
       THEN \E new_fault \in NewFaults :
               ScReturnQueue(MmapQueue_new(fs, sc_in.cache_dir, "pointer_lib",
                                           new_fault))
       ELSE \E temp_fault \in TempFaults, new_fault \in NewFaults, fault \in GrowFaults :
               ScReturnQueue(merge_temp_files_kway(fs, sc_writer.temp_files,
                                 sc_in.cache_dir, "pointer_lib", temp_fault,
                                 new_fault, fault))
    /\ UNCHANGED <<sc_in, sc_valid_ranges, sc_pool, sc_bound, sc_binds, sc_region_pid, sc_pred, sc_pred_when, sc_cancelled, sc_task, sc_chan,
                   sc_rx_alive, sc_writer, sc_total_found, sc_completed,
                   sc_progress>>
    /\ UNCHANGED notScan

ScanNext ==
    \/ ScCallerCancel
    \/ ScBind
    \/ \E i \in DOMAIN sc_task : ScTaskStart(i)
    \/ \E i \in DOMAIN sc_task : ScTaskLock(i)
    \/ \E i \in DOMAIN sc_task : ScTaskChunk(i)
    \/ \E i \in DOMAIN sc_task : ScTaskSend(i)
    \/ \E i \in DOMAIN sc_task : ScTaskAddFound(i)
    \/ \E i \in DOMAIN sc_task : ScTaskCount(i)
    \/ \E i \in DOMAIN sc_task : ScTaskReport(i)
    \/ \E i \in DOMAIN sc_task : ScTaskSkip(i)
    \/ ScDropTx
    \/ WrRecv
    \/ WrCheck
    \/ WrDropRx
    \/ WrSort
    \/ WrClosed
    \/ WrTail
    \/ ScFinish

\* ------------------------------------------------------------------------
\* DriverManager: the process-wide singleton behind DRIVER_MANAGER
\* ------------------------------------------------------------------------

\* most bindings the driver hands out in one run
MaxBinds == 3

NoHandle == [id |-> 0, pid |-> 0]
NoDriver == 0

\* the ids MemoryAccessMode::from_id knows
KnownModeIds == {0, 1, 2}
MemoryAccessMode_from_id(mode_id) ==
    IF mode_id \in KnownModeIds
    THEN [some |-> TRUE, mode |-> mode_id]
    ELSE [some |-> FALSE, mode |-> 0]

DriverManager_new ==
    [driver |-> NoDriver, mode |-> 0, bound_pid |-> 0, bind_handle |-> NoHandle]

is_driver_loaded(m) == m.driver # NoDriver
set_driver(m, d) == [m EXCEPT !.driver = d]
\* DriverManager::set_access_mode(mode) -> success: it records the mode; the
\* Result it returns is Ok for every mode
set_access_mode(m, mode) ==
    [m |-> [m EXCEPT !.mode = mode], res |-> "Ok"]
is_process_bound(m) == m.bind_handle # NoHandle
get_bound_pid(m) == m.bound_pid

\* DriverManager::bind_process returns a Result: "ok", or "err"
BindOutcomes == {"ok", "err"}

\* DriverManager::bind_process(handle, pid): store the pair and release the
\* prior binding, or fail, leave the pair as it was and drop the handle it
\* was given; `live` are the driver-side bindings
manager_bind_process(m, live, handle, pid, outcome) ==
    IF outcome = "ok"
    THEN [m |-> [m EXCEPT !.bound_pid = pid, !.bind_handle = handle],
          live |-> live \ {m.bind_handle}, res |-> "Ok"]
    ELSE [m |-> m, live |-> live \ {handle}, res |-> "Err"]

\* DriverManager::unbind_process: release the binding, bound_pid <- 0
unbind_process(m, live) ==
    [m |-> [m EXCEPT !.bound_pid = 0, !.bind_handle = NoHandle],
     live |-> live \ {m.bind_handle}]

\* the processes the driver can bind
AlivePids == {7, 9}

\* ------------------------------------------------------------------------
\* driver.rs: the JNI methods, each called by one of the JVM's threads
\* ------------------------------------------------------------------------

Threads == {1, 2}
NoBind == [pc |-> "idle", pid |-> 0, handle |-> NoHandle]

\* what a JNI call did and returned: res is "ok" (val is the value) or
\* "throw" (or_throw raised the error in the JVM)
JniRet(op, t, arg, res, val) ==
    [op |-> op, thread |-> t, arg |-> arg, res |-> res, val |-> val,
     io |-> FALSE, fd_given |-> FALSE, closes |-> 0, maps |-> 0, unmaps |-> 0,
     before |-> dm, poisoned |-> dm_poisoned]
NoJniRet ==
    [op |-> "none", thread |-> 0, arg |-> 0, res |-> "ok", val |-> 0,
     io |-> FALSE, fd_given |-> FALSE, closes |-> 0, maps |-> 0, unmaps |-> 0,
     before |-> DriverManager_new, poisoned |-> FALSE]

DriverInit ==
    /\ dm = DriverManager_new
    /\ dm_poisoned = FALSE
    /\ dm_last_change = "none"
    /\ drv_live = {}
    /\ drv_next = 1
    /\ jni_bind = [t \in Threads |-> NoBind]
    /\ jni_ret = NoJniRet
DriverIdle == DriverInit

\* the answers of the driver to get_process_info(getpid()): an error, a name
\* without the expected substring, a name with it
SelfChecks == {"err", "other", "fuqiuluo"}

\* a thread panics while it holds the write lock: the lock is poisoned
lock_poisoned ==
    /\ ~dm_poisoned
    /\ dm_poisoned' = TRUE
    /\ UNCHANGED <<dm, dm_last_change, drv_live, drv_next, jni_bind, jni_ret>>
    /\ UNCHANGED notDriver

\* nativeSetDriverFd: install the driver unless one is loaded, then the
\* self-check on the manager's driver
jni_set_driver_fd(t, fd) ==
    /\ jni_bind[t].pc = "idle"
    /\ \E info \in SelfChecks :
          IF dm_poisoned
          THEN /\ dm' = dm
               /\ jni_ret' = JniRet("set_driver_fd", t, fd, "throw", 0)
          ELSE /\ dm' = IF is_driver_loaded(dm) THEN dm ELSE set_driver(dm, fd)
               /\ jni_ret' = IF info = "fuqiuluo"
                              THEN JniRet("set_driver_fd", t, fd, "ok", 1)
                              ELSE JniRet("set_driver_fd", t, fd, "throw", 0)
    /\ UNCHANGED <<dm_poisoned, dm_last_change, drv_live, drv_next, jni_bind>>
    /\ UNCHANGED notDriver

\* nativeIsLoaded: false when the lock cannot be taken
jni_is_loaded(t) ==
    /\ jni_bind[t].pc = "idle"
    /\ jni_ret' = JniRet("is_loaded", t, 0, "ok",
                         IF ~dm_poisoned /\ is_driver_loaded(dm) THEN 1 ELSE 0)
    /\ UNCHANGED <<dm, dm_poisoned, dm_last_change, drv_live, drv_next, jni_bind>>
    /\ UNCHANGED notDriver

\* a set-mode that falls back to mode 0 for an unknown id
set_memory_access_mode_default(t, mode_id) ==
    /\ jni_bind[t].pc = "idle"
    /\ IF dm_poisoned
       THEN /\ dm' = dm
            /\ jni_ret' = JniRet("set_memory_access_mode", t, mode_id, "throw", 0)
       ELSE LET r == set_access_mode(dm, MemoryAccessMode_from_id(mode_id).mode)
            IN  /\ dm' = r.m
                /\ jni_ret' = JniRet("set_memory_access_mode", t, mode_id,
                                     IF MemoryAccessMode_from_id(mode_id).some
                                        /\ r.res = "Ok"
                                     THEN "ok" ELSE "throw", 0)
    /\ UNCHANGED <<dm_poisoned, dm_last_change, drv_live, drv_next, jni_bind>>
    /\ UNCHANGED notDriver

\* nativeSetMemoryAccessMode: the poisoned lock, an unknown id and an Err of
\* set_access_mode all go to or_throw
jni_set_memory_access_mode(t, mode_id) ==
    /\ jni_bind[t].pc = "idle"
    /\ IF dm_poisoned \/ ~MemoryAccessMode_from_id(mode_id).some
       THEN /\ dm' = dm
            /\ jni_ret' = JniRet("set_memory_access_mode", t, mode_id, "throw", 0)
       ELSE LET r == set_access_mode(dm, MemoryAccessMode_from_id(mode_id).mode)
            IN  /\ dm' = r.m
                /\ jni_ret' = JniRet("set_memory_access_mode", t, mode_id,
                                     IF r.res = "Ok" THEN "ok" ELSE "throw", 0)
    /\ UNCHANGED <<dm_poisoned, dm_last_change, drv_live, drv_next, jni_bind>>
    /\ UNCHANGED notDriver

\* nativeBindProcess, under the read lock: ask the driver for a binding of
\* pid, then drop the read lock
jni_bind_proc(t, pid) ==
    /\ jni_bind[t].pc = "idle"
    /\ drv_next <= MaxBinds
    /\ IF dm_poisoned \/ ~is_driver_loaded(dm)
       THEN /\ jni_ret' = JniRet("bind_proc", t, pid, "throw", 0)
            /\ UNCHANGED <<drv_live, drv_next, jni_bind>>
       ELSE IF pid \notin AlivePids
       THEN /\ jni_ret' = JniRet("bind_proc", t, pid, "ok", 0)
            /\ UNCHANGED <<drv_live, drv_next, jni_bind>>
       ELSE /\ drv_live' = drv_live \cup {[id |-> drv_next, pid |-> pid]}
            /\ drv_next' = drv_next + 1
            /\ jni_bind' = [jni_bind EXCEPT
                              ![t] = [pc |-> "store", pid |-> pid,
                                      handle |-> [id |-> drv_next, pid |-> pid]]]
            /\ jni_ret' = jni_ret
    /\ UNCHANGED <<dm, dm_poisoned, dm_last_change>>
    /\ UNCHANGED notDriver

\* a store that keeps the handle of the prior binding with the new pid
bind_proc_store_pid_only(t, outcome) ==
    /\ jni_bind[t].pc = "store"
    /\ jni_bind' = [jni_bind EXCEPT ![t] = NoBind]
    /\ IF dm_poisoned \/ outcome # "ok"
       THEN /\ drv_live' = drv_live \ {jni_bind[t].handle}
            /\ jni_ret' = JniRet("bind_proc", t, jni_bind[t].pid, "throw", 0)
            /\ UNCHANGED <<dm, dm_last_change>>
       ELSE /\ dm' = [dm EXCEPT !.bound_pid = jni_bind[t].pid,
                                !.bind_handle = IF dm.bind_handle = NoHandle
                                                THEN jni_bind[t].handle
                                                ELSE dm.bind_handle]
            /\ drv_live' = drv_live
            /\ dm_last_change' = "bind"
            /\ jni_ret' = JniRet("bind_proc", t, jni_bind[t].pid, "ok", 1)
    /\ UNCHANGED <<dm_poisoned, drv_next>>
    /\ UNCHANGED notDriver

\* nativeBindProcess, under the write lock: store the binding with its pid;
\* outcome is what DriverManager::bind_process does, its error going to
\* or_throw
jni_bind_proc_store(t, outcome) ==
    /\ jni_bind[t].pc = "store"
    /\ jni_bind' = [jni_bind EXCEPT ![t] = NoBind]
    /\ IF dm_poisoned
       THEN \* the handle is dropped with the error
            /\ drv_live' = drv_live \ {jni_bind[t].handle}
            /\ jni_ret' = JniRet("bind_proc", t, jni_bind[t].pid, "throw", 0)
            /\ UNCHANGED <<dm, dm_last_change>>
       ELSE LET r == manager_bind_process(dm, drv_live, jni_bind[t].handle,
                                          jni_bind[t].pid, outcome)
            IN  /\ dm' = r.m
                /\ drv_live' = r.live
                /\ dm_last_change' = IF r.res = "Ok" THEN "bind" ELSE dm_last_change
                /\ jni_ret' = IF r.res = "Ok"
                              THEN JniRet("bind_proc", t, jni_bind[t].pid, "ok", 1)
                              ELSE JniRet("bind_proc", t, jni_bind[t].pid, "throw", 0)
    /\ UNCHANGED <<dm_poisoned, drv_next>>
    /\ UNCHANGED notDriver

\* nativeGetCurrentBindPid: 0 when the lock cannot be taken
jni_get_current_bind_pid(t) ==
    /\ jni_bind[t].pc = "idle"
    /\ jni_ret' = JniRet("get_current_bind_pid", t, 0, "ok",
                         IF dm_poisoned THEN 0 ELSE get_bound_pid(dm))
    /\ UNCHANGED <<dm, dm_poisoned, dm_last_change, drv_live, drv_next, jni_bind>>
    /\ UNCHANGED notDriver

\* nativeIsProcessBound: false when the lock cannot be taken
jni_is_proc_bound(t) ==
    /\ jni_bind[t].pc = "idle"
    /\ jni_ret' = JniRet("is_proc_bound", t, 0, "ok",
                         IF ~dm_poisoned /\ is_process_bound(dm) THEN 1 ELSE 0)
    /\ UNCHANGED <<dm, dm_poisoned, dm_last_change, drv_live, drv_next, jni_bind>>
    /\ UNCHANGED notDriver

\* an unbind that releases the handle and keeps the pid
unbind_proc_keeps_pid(t) ==
    /\ jni_bind[t].pc = "idle"
    /\ IF dm_poisoned
       THEN /\ jni_ret' = JniRet("unbind_proc", t, 0, "throw", 0)
            /\ UNCHANGED <<dm, dm_last_change, drv_live>>
       ELSE /\ dm' = [dm EXCEPT !.bind_handle = NoHandle]
            /\ drv_live' = drv_live \ {dm.bind_handle}
            /\ dm_last_change' = "unbind"
            /\ jni_ret' = JniRet("unbind_proc", t, 0, "ok", 1)
    /\ UNCHANGED <<dm_poisoned, drv_next, jni_bind>>
    /\ UNCHANGED notDriver

\* nativeUnbindProcess
jni_unbind_proc(t) ==
    /\ jni_bind[t].pc = "idle"
    /\ IF dm_poisoned
       THEN /\ jni_ret' = JniRet("unbind_proc", t, 0, "throw", 0)
            /\ UNCHANGED <<dm, dm_last_change, drv_live>>
       ELSE /\ dm' = unbind_process(dm, drv_live).m
            /\ drv_live' = unbind_process(dm, drv_live).live
            /\ dm_last_change' = "unbind"
            /\ jni_ret' = JniRet("unbind_proc", t, 0, "ok", 1)
    /\ UNCHANGED <<dm_poisoned, drv_next, jni_bind>>
    /\ UNCHANGED notDriver

\* how a nativeQueryMemRegions call can go once the lock is held and a
\* process is bound: the driver fails; it returns buffer_size 0; mmap fails;
\* find_class fails; new_object_array fails; all succeed
QueryOutcomes == {"driver_err", "zero_size", "mmap_fail", "class_fail", "array_fail", "ok"}

\* the closes of the fd, the mappings made and the unmaps, per outcome
query_release(outcome) ==
    IF outcome = "driver_err"
    THEN [res |-> "throw", fd_given |-> FALSE, closes |-> 0, maps |-> 0, unmaps |-> 0]
    ELSE IF outcome = "zero_size"
    THEN [res |-> "throw", fd_given |-> TRUE, closes |-> 0, maps |-> 0, unmaps |-> 0]
    ELSE IF outcome = "mmap_fail"
    THEN [res |-> "throw", fd_given |-> TRUE, closes |-> 1, maps |-> 0, unmaps |-> 0]
    ELSE IF outcome = "class_fail"
    THEN [res |-> "throw", fd_given |-> TRUE, closes |-> 0, maps |-> 1, unmaps |-> 0]
    ELSE IF outcome = "array_fail"
    THEN [res |-> "throw", fd_given |-> TRUE, closes |-> 1, maps |-> 1, unmaps |-> 1]
    ELSE [res |-> "ok", fd_given |-> TRUE, closes |-> 1, maps |-> 1, unmaps |-> 1]

\* nativeQueryMemRegions
jni_query_mem_regions(t, pid) ==
    /\ jni_bind[t].pc = "idle"
    /\ IF dm_poisoned \/ ~is_process_bound(dm) \/ ~is_driver_loaded(dm)
       THEN jni_ret' = JniRet("query_mem_regions", t, pid, "throw", 0)
       ELSE \E outcome \in QueryOutcomes :
               jni_ret' = [JniRet("query_mem_regions", t, pid,
                                  query_release(outcome).res, 0)
                             EXCEPT !.io = TRUE,
                                    !.fd_given = query_release(outcome).fd_given,
                                    !.closes = query_release(outcome).closes,
                                    !.maps = query_release(outcome).maps,
                                    !.unmaps = query_release(outcome).unmaps]
    /\ UNCHANGED <<dm, dm_poisoned, dm_last_change, drv_live, drv_next, jni_bind>>
    /\ UNCHANGED notDriver

\* a read that does not look at the binding
read_memory_unbound(t, addr, size) ==
    /\ jni_bind[t].pc = "idle"
    /\ IF size <= 0 \/ dm_poisoned
       THEN jni_ret' = JniRet("read_memory", t, size, "throw", 0)
       ELSE \E rd_ok \in BOOLEAN :
               jni_ret' = [JniRet("read_memory", t, size,
                                  IF rd_ok THEN "ok" ELSE "throw", 0)
                             EXCEPT !.io = TRUE]
    /\ UNCHANGED <<dm, dm_poisoned, dm_last_change, drv_live, drv_next, jni_bind>>
    /\ UNCHANGED notDriver

\* nativeReadMemory
jni_read_memory(t, addr, size) ==
    /\ jni_bind[t].pc = "idle"
    /\ IF size <= 0 \/ dm_poisoned \/ ~is_process_bound(dm)
       THEN jni_ret' = JniRet("read_memory", t, size, "throw", 0)
       ELSE \E rd_ok \in BOOLEAN :
               jni_ret' = [JniRet("read_memory", t, size,
                                  IF rd_ok THEN "ok" ELSE "throw", 0)
                             EXCEPT !.io = TRUE]
    /\ UNCHANGED <<dm, dm_poisoned, dm_last_change, drv_live, drv_next, jni_bind>>
    /\ UNCHANGED notDriver

\* nativeWriteMemory; data_len is the length of the Java byte array
jni_write_memory(t, addr, data_len) ==
    /\ jni_bind[t].pc = "idle"
    /\ IF data_len = 0 \/ dm_poisoned \/ ~is_process_bound(dm)
       THEN jni_ret' = JniRet("write_memory", t, data_len, "throw", 0)
       ELSE \E wr_ok \in BOOLEAN :
               jni_ret' = [JniRet("write_memory", t, data_len,
                                  IF wr_ok THEN "ok" ELSE "throw", 1)
                             EXCEPT !.io = TRUE]
    /\ UNCHANGED <<dm, dm_poisoned, dm_last_change, drv_live, drv_next, jni_bind>>
    /\ UNCHANGED notDriver

\* the arguments the JVM passes
DriverFds == {3}
ModeIds == {1, 2, 9}
BindPids == {0, 7, 9}
IoAddrs == {4096}
ReadSizes == {-1, 0, 8}
WriteLens == {0, 8}

DriverNext ==
    \/ lock_poisoned
    \/ \E t \in Threads, fd \in DriverFds : jni_set_driver_fd(t, fd)
    \/ \E t \in Threads : jni_is_loaded(t)
    \/ \E t \in Threads, mode_id \in ModeIds : jni_set_memory_access_mode(t, mode_id)
    \/ \E t \in Threads, pid \in BindPids : jni_bind_proc(t, pid)
    \/ \E t \in Threads, outcome \in BindOutcomes : jni_bind_proc_store(t, outcome)
    \/ \E t \in Threads : jni_get_current_bind_pid(t)
    \/ \E t \in Threads : jni_is_proc_bound(t)
    \/ \E t \in Threads : jni_unbind_proc(t)
    \/ \E t \in Threads, pid \in BindPids : jni_query_mem_regions(t, pid)
    \/ \E t \in Threads, addr \in IoAddrs, size \in ReadSizes : jni_read_memory(t, addr, size)
    \/ \E t \in Threads, addr \in IoAddrs, n \in WriteLens : jni_write_memory(t, addr, n)

\* ------------------------------------------------------------------------
\* fuzzy_search.rs: fuzzy_initial_scan
\* ------------------------------------------------------------------------

\* ValueType::size() in bytes
value_size(value_type) ==
    IF value_type \in {"I8", "U8"} THEN 1
    ELSE IF value_type \in {"I16", "U16"} THEN 2
    ELSE IF value_type \in {"I32", "U32", "F32"} THEN 4
    ELSE 8

\* FuzzySearchResultItem::from_bytes
FuzzySearchResultItem_from_bytes(address, bytes, value_type) ==
    [address |-> address, value_type |-> value_type, value_bytes |-> bytes]

\* the element loop of scan_single_page: one item per element_size bytes
\* while the whole element lies below safe_end
RECURSIVE page_elements(_, _, _, _, _, _)
page_elements(buffer, offset, addr, safe_end, element_size, value_type) ==
    IF offset + element_size <= safe_end
    THEN <<FuzzySearchResultItem_from_bytes(
               addr, SubSeq(buffer, offset + 1, offset + element_size), value_type)>>
         \o page_elements(buffer, offset + element_size, addr + element_size,
                          safe_end, element_size, value_type)
    ELSE <<>>

\* a page scan that starts at the first byte of the search range, aligned or not
scan_single_page_unaligned(buffer, buffer_addr, search_start, search_end, element_size, value_type, page_size, page_idx) ==
    LET page_start_addr == buffer_addr + page_idx * page_size
        effective_start == Max(page_start_addr, search_start)
        effective_end == Min(page_start_addr + page_size, search_end)
    IN  IF effective_start >= effective_end
        THEN <<>>
        ELSE page_elements(buffer, effective_start - buffer_addr, effective_start,
                           Min(effective_end - buffer_addr, Len(buffer)),
                           element_size, value_type)

\* scan_single_page
scan_single_page(buffer, buffer_addr, search_start, search_end, element_size, value_type, page_size, page_idx) ==
    LET page_start_addr == buffer_addr + page_idx * page_size
        page_end_addr == page_start_addr + page_size
        effective_start == Max(page_start_addr, search_start)
        effective_end == Min(page_end_addr, search_end)
        rem == effective_start % element_size
        first_addr == IF rem = 0 THEN effective_start
                      ELSE effective_start + element_size - rem
    IN  IF effective_start >= effective_end \/ first_addr >= effective_end
        THEN <<>>
        ELSE page_elements(buffer, first_addr - buffer_addr, first_addr,
                           Min(effective_end - buffer_addr, Len(buffer)),
                           element_size, value_type)

\* the flat_map over the pages the bitmap marks read, in page order
RECURSIVE scan_success_pages(_, _, _, _, _, _, _, _, _)
scan_success_pages(buffer, buffer_addr, search_start, search_end, element_size, value_type, page_size, page_ok, page_idx) ==
    IF page_idx >= Len(page_ok)
    THEN <<>>
    ELSE (IF page_ok[page_idx + 1]
          THEN scan_single_page(buffer, buffer_addr, search_start, search_end,
                                element_size, value_type, page_size, page_idx)
          ELSE <<>>)
         \o scan_success_pages(buffer, buffer_addr, search_start, search_end,
                               element_size, value_type, page_size, page_ok,
                               page_idx + 1)

\* scan_buffer_parallel
scan_buffer_parallel(buffer, buffer_addr, region_start, region_end, element_size, value_type, page_size, page_ok) ==
    LET search_start == Max(buffer_addr, region_start)
        search_end == Min(buffer_addr + Len(buffer), region_end)
    IN  IF search_start >= search_end
        THEN <<>>
        ELSE scan_success_pages(buffer, buffer_addr, search_start, search_end,
                                element_size, value_type, page_size, page_ok, 0)

\* `start & !(PAGE_SIZE - 1)`
page_align_down(addr) == addr - (addr % PAGE_SIZE)

\* one pass of the chunk loop body of fuzzy_initial_scan at `current`, rd
\* being what read_memory_unified returned: the items to insert
fuzzy_chunk_items(rd, current, in) ==
    IF rd.res = "Ok" /\ (\E p \in DOMAIN rd.page_ok : rd.page_ok[p])
    THEN Range(scan_buffer_parallel(rd.buffer, current, in.start, in.end,
                                    value_size(in.value_type), in.value_type,
                                    PAGE_SIZE, rd.page_ok))
    ELSE {}

NoFuzzyRet == [returned |-> FALSE, ok |-> FALSE, cancelled |-> FALSE, items |-> {}]

\* a cancelled scan that throws away what it has accumulated
fuzzy_cancel_discard(results) ==
    [returned |-> TRUE, ok |-> TRUE, cancelled |-> TRUE, items |-> {}]

\* `return Ok(results)` once check_fn() has returned true
fuzzy_cancel_return(results) ==
    [returned |-> TRUE, ok |-> TRUE, cancelled |-> TRUE, items |-> results]

FuzzyIdle ==
    /\ fz_pc = "idle"
    /\ fz_in = [value_type |-> "U8", start |-> 0, end |-> 0, chunk_size |-> PAGE_SIZE,
                env |-> [mem |-> <<>>, bad_pages |-> {}, fail_chunks |-> {},
                         poisoned |-> FALSE]]
    /\ fz_pred = FALSE
    /\ fz_current = 0
    /\ fz_results = {}
    /\ fz_reads = <<>>
    /\ fz_processed = 0
    /\ fz_total_found = 0
    /\ fz_ret = NoFuzzyRet

\* the value types, ranges, chunk sizes and driver behaviours of the runs;
\* chunk sizes: none, one page, two pages, and a size that is a multiple of
\* neither the page size nor the larger element sizes
FuzzyTypes == {"U8", "I16", "U32", "U64"}
FuzzyStarts == {PAGE_SIZE, PAGE_SIZE + 3, 2 * PAGE_SIZE - 2}
FuzzyEnds == {2 * PAGE_SIZE, 3 * PAGE_SIZE + 6, 4 * PAGE_SIZE}
FuzzyChunks == {0, PAGE_SIZE, PAGE_SIZE + 2, 2 * PAGE_SIZE}
FuzzyEnvs ==
    { [mem |-> Image1, bad_pages |-> {}, fail_chunks |-> {}, poisoned |-> FALSE],
      [mem |-> Image1, bad_pages |-> {2}, fail_chunks |-> {}, poisoned |-> FALSE],
      [mem |-> Image1, bad_pages |-> {}, fail_chunks |-> {3 * PAGE_SIZE},
       poisoned |-> FALSE],
      [mem |-> Image1, bad_pages |-> {}, fail_chunks |-> {}, poisoned |-> TRUE] }

\* most reads the read log keeps
MaxFuzzyReads == 4

\* fuzzy_initial_scan called. Which bit of the bitmap the driver clears for
\* an unreadable page when the buffer does not start on a page boundary is
\* not in the source: chunks that are no multiple of the page size are read
\* from memory whose pages are all readable
FuzzyInit ==
    /\ fz_pc = "enter"
    /\ fz_in \in [value_type : FuzzyTypes, start : FuzzyStarts, end : FuzzyEnds,
                  chunk_size : FuzzyChunks, env : FuzzyEnvs]
    /\ fz_in.chunk_size % PAGE_SIZE # 0 => fz_in.env.bad_pages = {}
    /\ fz_pred = FALSE
    /\ fz_current = 0
    /\ fz_results = {}
    /\ fz_reads = <<>>
    /\ fz_processed = 0
    /\ fz_total_found = 0
    /\ fz_ret = NoFuzzyRet

\* the caller's predicate turns true
FzCallerCancel ==
    /\ fz_pc \in {"enter", "scan"}
    /\ ~fz_pred
    /\ fz_pred' = TRUE
    /\ UNCHANGED <<fz_pc, fz_in, fz_current, fz_results, fz_reads, fz_processed,
                   fz_total_found, fz_ret>>
    /\ UNCHANGED notFuzzy

\* DRIVER_MANAGER.read(): a poisoned lock is returned as the error of the
\* call; else the scan starts at the page of `start`
FzEnter ==
    /\ fz_pc = "enter"
    /\ IF fz_in.env.poisoned
       THEN /\ fz_pc' = "done"
            /\ fz_ret' = [returned |-> TRUE, ok |-> FALSE, cancelled |-> FALSE,
                           items |-> {}]
            /\ UNCHANGED fz_current
       ELSE /\ fz_pc' = "scan"
            /\ fz_current' = page_align_down(fz_in.start)
            /\ UNCHANGED fz_ret
    /\ UNCHANGED <<fz_in, fz_pred, fz_results, fz_reads, fz_processed, fz_total_found>>
    /\ UNCHANGED notFuzzy

\* one pass of `while current < end`: the cancellation poll, the read of the
\* chunk, the scan of its pages and the inserts
FzChunk ==
    /\ fz_pc = "scan"
    /\ fz_current < fz_in.end
    /\ IF fz_pred
       THEN /\ fz_pc' = "done"
            /\ fz_ret' = fuzzy_cancel_return(fz_results)
            /\ UNCHANGED <<fz_current, fz_results, fz_reads, fz_processed>>
       ELSE /\ fz_reads' =
                 IF Len(fz_reads) < MaxFuzzyReads
                 THEN Append(fz_reads,
                          <<fz_current,
                            Min(fz_current + fz_in.chunk_size, fz_in.end) - fz_current>>)
                 ELSE fz_reads
            /\ fz_processed' = fz_processed
                 + (Min(fz_current + fz_in.chunk_size, fz_in.end) - fz_current)
            /\ fz_results' = fz_results \cup
                 fuzzy_chunk_items(
                     read_memory_unified(fz_in.env, fz_current,
                         Min(fz_current + fz_in.chunk_size, fz_in.end) - fz_current),
                     fz_current, fz_in)
            /\ fz_current' = Min(fz_current + fz_in.chunk_size, fz_in.end)
            /\ UNCHANGED <<fz_pc, fz_ret>>
    /\ UNCHANGED <<fz_in, fz_pred, fz_total_found>>
    /\ UNCHANGED notFuzzy

\* the loop has ended: Ok(results)
FzReturn ==
    /\ fz_pc = "scan"
    /\ fz_current >= fz_in.end
    /\ fz_pc' = "done"
    /\ fz_ret' = [returned |-> TRUE, ok |-> TRUE, cancelled |-> FALSE,
                   items |-> fz_results]
    /\ fz_total_found' = Cardinality(fz_results)
    /\ UNCHANGED <<fz_in, fz_pred, fz_current, fz_results, fz_reads, fz_processed>>
    /\ UNCHANGED notFuzzy

FuzzyNext == FzCallerCancel \/ FzEnter \/ FzChunk \/ FzReturn

\* ------------------------------------------------------------------------
\* fuzzy_search.rs: fuzzy_refine_search
\* ------------------------------------------------------------------------

\* the I/O loop polls the cancellation predicate when idx % 100 == 0, and
\* reports progress when processed % 100 == 0; the model scales both
CANCEL_CHECK_EVERY == 2
REFINE_PROGRESS_EVERY == 2

\* the little-endian unsigned value of a byte string
RECURSIVE le_value(_)
le_value(bytes) ==
    IF bytes = <<>> THEN 0 ELSE Head(bytes) + BYTE_RADIX * le_value(Tail(bytes))

\* the value of the bytes under a value type: two's complement for I8..I64
typed_value(bytes, value_type) ==
    LET u == le_value(bytes)
        top == BYTE_RADIX ^ Len(bytes)
    IN  IF value_type \in {"I8", "I16", "I32", "I64"} /\ 2 * u >= top
        THEN u - top ELSE u

\* FuzzyCondition as a record: kind, and the operands a, b where it has any
Cond(kind, a, b) == [kind |-> kind, a |-> a, b |-> b]

\* FuzzySearchResultItem::matches_condition
matches_condition(old_item, new_bytes, condition) ==
    LET old == typed_value(old_item.value_bytes, old_item.value_type)
        new == typed_value(new_bytes, old_item.value_type)
    IN  CASE condition.kind = "Unchanged" -> old = new
          [] condition.kind = "Changed" -> old # new
          [] condition.kind = "Increased" -> new > old
          [] condition.kind = "Decreased" -> new < old
          [] condition.kind = "IncreasedBy" -> new - old = condition.a
          [] condition.kind = "DecreasedBy" -> old - new = condition.a
          [] condition.kind = "Equal" -> new = condition.a
          [] condition.kind = "GreaterThan" -> new > condition.a
          [] condition.kind = "LessThan" -> new < condition.a
          [] condition.kind = "InRange" -> condition.a <= new /\ new <= condition.b

\* read_memory_unified without a bitmap: "Err" on a hard failure or when a
\* page of [addr, addr + size) cannot be read, else the bytes
read_memory_plain(env, addr, size) ==
    IF addr \in env.fail_chunks
       \/ \E k \in 0..(size - 1) : ((addr + k) \div PAGE_SIZE) \in env.bad_pages
    THEN [res |-> "Err", buffer |-> <<>>]
    ELSE [res |-> "Ok", buffer |-> [k \in 1..size |-> env.mem[addr + k]]]

\* an I/O loop that keeps an item whose read failed, with the zeroed buffer
refine_read_item_keep_failed(env, old_item) ==
    LET rd == read_memory_plain(env, old_item.address, value_size(old_item.value_type))
    IN  IF rd.res = "Ok" THEN <<<<old_item, rd.buffer>>>>
        ELSE <<<<old_item, [k \in 1..value_size(old_item.value_type) |-> 0]>>>>

\* the body of the I/O loop for one item: the pair pushed on
\* items_with_current_value, or nothing when the read fails
refine_read_item(env, old_item) ==
    LET rd == read_memory_plain(env, old_item.address, value_size(old_item.value_type))
    IN  IF rd.res = "Ok" THEN <<<<old_item, rd.buffer>>>> ELSE <<>>

\* a matching phase that keeps the bytes of the old item
refine_match_old_bytes(old_item, current_value, condition) ==
    IF matches_condition(old_item, current_value, condition)
    THEN {FuzzySearchResultItem_from_bytes(old_item.address, old_item.value_bytes,
                                           old_item.value_type)}
    ELSE {}

\* the filter_map closure of the matching phase
refine_match(old_item, current_value, condition) ==
    IF matches_condition(old_item, current_value, condition)
    THEN {FuzzySearchResultItem_from_bytes(old_item.address, current_value,
                                           old_item.value_type)}
    ELSE {}

NoRefineRet == [returned |-> FALSE, ok |-> FALSE, items |-> {}]
NoFirstPass == [items |-> <<>>, result |-> {}]

RefineIdle ==
    /\ fr_pc = "idle"
    /\ fr_in = [items |-> <<>>, condition |-> Cond("Unchanged", 0, 0), found0 |-> 0,
                env |-> [mem |-> <<>>, bad_pages |-> {}, fail_chunks |-> {},
                         poisoned |-> FALSE]]
    /\ fr_pred = FALSE
    /\ fr_idx = 0
    /\ fr_read = <<>>
    /\ fr_reads = <<>>
    /\ fr_seen = -1
    /\ fr_cancelled = FALSE
    /\ fr_todo = {}
    /\ fr_matched = {}
    /\ fr_processed = 0
    /\ fr_total_found = 0
    /\ fr_progress = <<>>
    /\ fr_ret = NoRefineRet
    /\ fr_pass = 1
    /\ fr_first = NoFirstPass

\* the results of an earlier pass over Image1: an unchanged U16, a U16 that
\* grew by one, a U8 in page 2, an unchanged U32, and an I16 that was -1
RefineItems ==
    << FuzzySearchResultItem_from_bytes(PAGE_SIZE, <<0, 3>>, "U16"),
       FuzzySearchResultItem_from_bytes(PAGE_SIZE + 8, <<3, 2>>, "U16"),
       FuzzySearchResultItem_from_bytes(2 * PAGE_SIZE, <<0>>, "U8"),
       FuzzySearchResultItem_from_bytes(3 * PAGE_SIZE, <<0, 0, 1, 0>>, "U32"),
       FuzzySearchResultItem_from_bytes(PAGE_SIZE + 4, <<7, 7>>, "I16") >>
RefineItemLists ==
    { SubSeq(RefineItems, 1, n) : n \in 0..Len(RefineItems) }
    \cup { <<RefineItems[4], RefineItems[2], RefineItems[1]>>,
            <<RefineItems[1], RefineItems[3], RefineItems[4]>> }
RefineConditions ==
    { Cond("Unchanged", 0, 0), Cond("Changed", 0, 0), Cond("Increased", 0, 0),
      Cond("Decreased", 0, 0), Cond("IncreasedBy", 1, 0), Cond("DecreasedBy", 1, 0),
      Cond("Equal", 0, 0), Cond("GreaterThan", 0, 0), Cond("LessThan", 20, 0),
      Cond("InRange", 20, 24) }
RefineEnvs ==
    { [mem |-> Image1, bad_pages |-> {}, fail_chunks |-> {}, poisoned |-> FALSE],
      [mem |-> Image1, bad_pages |-> {2}, fail_chunks |-> {}, poisoned |-> FALSE],
      [mem |-> Image1, bad_pages |-> {}, fail_chunks |-> {PAGE_SIZE},
       poisoned |-> FALSE],
      [mem |-> Image1, bad_pages |-> {}, fail_chunks |-> {}, poisoned |-> TRUE] }
RefineFound0 == {0, 3}

\* fuzzy_refine_search called
RefineInit ==
    /\ fr_pc = "start"
    /\ fr_in \in [items : RefineItemLists, condition : RefineConditions,
                  found0 : RefineFound0, env : RefineEnvs]
    /\ fr_pred \in BOOLEAN
    /\ fr_idx = 0
    /\ fr_read = <<>>
    /\ fr_reads = <<>>
    /\ fr_seen = -1
    /\ fr_cancelled = FALSE
    /\ fr_todo = {}
    /\ fr_matched = {}
    /\ fr_processed = 0
    /\ fr_total_found = fr_in.found0
    /\ fr_progress = <<>>
    /\ fr_ret = NoRefineRet
    /\ fr_pass = 1
    /\ fr_first = NoFirstPass

\* the caller's predicate turns true
FrCallerCancel ==
    /\ fr_pc \in {"start", "io", "match"}
    /\ ~fr_pred
    /\ fr_pred' = TRUE
    /\ UNCHANGED <<fr_pc, fr_in, fr_idx, fr_read, fr_reads, fr_seen, fr_cancelled,
                   fr_todo, fr_matched, fr_processed, fr_total_found, fr_progress,
                   fr_ret>>
    /\ UNCHANGED <<fr_pass, fr_first>>
    /\ UNCHANGED notRefine

\* the entry: an empty item list returns an empty set at once; else
\* DRIVER_MANAGER.read(), whose poisoned lock is returned as the error of
\* the call
FrEnter ==
    /\ fr_pc = "start"
    /\ IF fr_in.items = <<>>
       THEN /\ fr_pc' = "done"
            /\ fr_ret' = [returned |-> TRUE, ok |-> TRUE, items |-> {}]
       ELSE IF fr_in.env.poisoned
       THEN /\ fr_pc' = "done"
            /\ fr_ret' = [returned |-> TRUE, ok |-> FALSE, items |-> {}]
       ELSE /\ fr_pc' = "io"
            /\ UNCHANGED fr_ret
    /\ UNCHANGED <<fr_in, fr_pred, fr_idx, fr_read, fr_reads, fr_seen, fr_cancelled,
                   fr_todo, fr_matched, fr_processed, fr_total_found, fr_progress>>
    /\ UNCHANGED <<fr_pass, fr_first>>
    /\ UNCHANGED notRefine

\* one pass of the I/O loop: the periodic cancellation poll, which breaks
\* out to the matching phase, or the read of items[idx]
FrRead ==
    /\ fr_pc = "io"
    /\ fr_idx < Len(fr_in.items)
    /\ IF fr_idx % CANCEL_CHECK_EVERY = 0 /\ fr_pred
       THEN /\ fr_seen' = fr_idx
            /\ fr_pc' = "match"
            /\ fr_todo' = 1..Len(fr_read)
            /\ UNCHANGED <<fr_idx, fr_read, fr_reads, fr_processed, fr_progress>>
       ELSE /\ fr_read' = fr_read \o refine_read_item(fr_in.env, fr_in.items[fr_idx + 1])
            /\ fr_reads' = Append(fr_reads, fr_in.items[fr_idx + 1].address)
            /\ fr_processed' = fr_processed + 1
            /\ fr_progress' = IF (fr_processed + 1) % REFINE_PROGRESS_EVERY = 0
                              THEN Append(fr_progress,
                                          <<fr_processed + 1, fr_total_found>>)
                              ELSE fr_progress
            /\ fr_idx' = fr_idx + 1
            /\ UNCHANGED <<fr_pc, fr_seen, fr_todo>>
    /\ UNCHANGED <<fr_in, fr_pred, fr_cancelled, fr_matched, fr_total_found, fr_ret>>
    /\ UNCHANGED <<fr_pass, fr_first>>
    /\ UNCHANGED notRefine

\* the I/O loop has run over every item: the lock is dropped and the
\* matching phase starts
FrIoDone ==
    /\ fr_pc = "io"
    /\ fr_idx >= Len(fr_in.items)
    /\ fr_pc' = "match"
    /\ fr_todo' = 1..Len(fr_read)
    /\ UNCHANGED <<fr_in, fr_pred, fr_idx, fr_read, fr_reads, fr_seen, fr_cancelled,
                   fr_matched, fr_processed, fr_total_found, fr_progress, fr_ret>>
    /\ UNCHANGED <<fr_pass, fr_first>>
    /\ UNCHANGED notRefine

\* the matching phase looks at one pair, in any order: take_any_while polls
\* the flag and the predicate and rejects the pair once either is set
FrMatchOne(i) ==
    /\ fr_pc = "match"
    /\ i \in fr_todo
    /\ fr_todo' = fr_todo \ {i}
    /\ IF fr_cancelled
       THEN UNCHANGED <<fr_cancelled, fr_matched, fr_total_found>>
       ELSE IF fr_pred
       THEN /\ fr_cancelled' = TRUE
            /\ UNCHANGED <<fr_matched, fr_total_found>>
       ELSE /\ fr_matched' = fr_matched
                 \cup refine_match(fr_read[i][1], fr_read[i][2], fr_in.condition)
            /\ fr_total_found' = fr_total_found
                 + Cardinality(refine_match(fr_read[i][1], fr_read[i][2],
                                            fr_in.condition))
            /\ UNCHANGED fr_cancelled
    /\ UNCHANGED <<fr_pc, fr_in, fr_pred, fr_idx, fr_read, fr_reads, fr_seen,
                   fr_processed, fr_progress, fr_ret>>
    /\ UNCHANGED <<fr_pass, fr_first>>
    /\ UNCHANGED notRefine

\* every pair was looked at: the set is built, the counter stored, the last
\* progress reported, Ok(results)
FrReturn ==
    /\ fr_pc = "match"
    /\ fr_todo = {}
    /\ fr_pc' = "done"
    /\ fr_total_found' = Cardinality(fr_matched)
    /\ fr_progress' = Append(fr_progress, <<Len(fr_in.items), Cardinality(fr_matched)>>)
    /\ fr_ret' = [returned |-> TRUE, ok |-> TRUE, items |-> fr_matched]
    /\ UNCHANGED <<fr_in, fr_pred, fr_idx, fr_read, fr_reads, fr_seen, fr_cancelled,
                   fr_todo, fr_matched, fr_processed>>
    /\ UNCHANGED <<fr_pass, fr_first>>
    /\ UNCHANGED notRefine

\* the items of a result set as the caller's list, in address order
RECURSIVE items_by_address(_)
items_by_address(set) ==
    IF set = {} THEN <<>>
    ELSE LET first == CHOOSE x \in set : \A y \in set : x.address <= y.address
         IN  <<first>> \o items_by_address(set \ {first})

\* the caller refines again: fuzzy_refine_search on the first call's result,
\* with the same condition and no write to memory in between
FrSecondPass ==
    /\ fr_pc = "done"
    /\ fr_ret.ok
    /\ fr_pass = 1
    /\ fr_pass' = 2
    /\ fr_first' = [items |-> fr_in.items, result |-> fr_ret.items]
    /\ fr_in' = [fr_in EXCEPT !.items = items_by_address(fr_ret.items)]
    /\ fr_pc' = "start"
    /\ fr_idx' = 0
    /\ fr_read' = <<>>
    /\ fr_reads' = <<>>
    /\ fr_seen' = -1
    /\ fr_cancelled' = FALSE
    /\ fr_todo' = {}
    /\ fr_matched' = {}
    /\ fr_processed' = 0
    /\ fr_progress' = <<>>
    /\ fr_ret' = NoRefineRet
    /\ UNCHANGED <<fr_pred, fr_total_found>>
    /\ UNCHANGED notRefine

RefineNext ==
    \/ FrSecondPass
    \/ FrCallerCancel
    \/ FrEnter
    \/ FrRead
    \/ FrIoDone
    \/ \E i \in 1..Len(RefineItems) : FrMatchOne(i)
    \/ FrReturn

\* ------------------------------------------------------------------------
\* Specifications
\* ------------------------------------------------------------------------

vars == <<chainVars, findVars, fsVars, queueVars, scanVars, driverVars, fuzzyVars,
          refineVars, rangeVars>>

\* build_pointer_chains over every modelled queue, module list and config
InitChain == FindIdle /\ QueueIdle /\ ScanIdle /\ DriverIdle /\ FuzzyIdle /\ RefineIdle /\ RangeIdle /\ ChainInit
SpecChain == InitChain /\ [][ChainNext]_vars

\* build_valid_ranges and is_valid_pointer over every modelled region list
InitRange == ChainIdle /\ FindIdle /\ QueueIdle /\ ScanIdle /\ DriverIdle /\ FuzzyIdle /\ RefineIdle /\ RangeInit
SpecRange == InitRange /\ [][RangeNext]_vars

\* the same search in a build with the scaled layer cap
InitChainPruned == FindIdle /\ QueueIdle /\ ScanIdle /\ DriverIdle /\ FuzzyIdle /\ RefineIdle /\ RangeIdle /\ ChainInitPruned
SpecChainPruned == InitChainPruned /\ [][ChainNext]_vars

\* find_pointers_to_range over every modelled queue, target and max_offset
InitFind == ChainIdle /\ QueueIdle /\ ScanIdle /\ DriverIdle /\ FuzzyIdle /\ RefineIdle /\ RangeIdle /\ FindInit
SpecFind == InitFind /\ [][FindNext]_vars


\* one MmapQueue and its file, every operation, grow failures included
InitQueue == ChainIdle /\ FindIdle /\ ScanIdle /\ DriverIdle /\ FuzzyIdle /\ RefineIdle /\ RangeIdle /\ QueueInitOne
SpecQueue == InitQueue /\ [][QueueNext]_vars

\* two MmapQueues alive over the same cache directory
\* scan_all_pointers: every interleaving of the region tasks, the writer
\* thread and the caller's cancellation
InitScan == ChainIdle /\ FindIdle /\ QueueIdle /\ DriverIdle /\ FuzzyIdle /\ RefineIdle /\ RangeIdle /\ ScanInit
SpecScan == InitScan /\ [][ScanNext]_vars

\* one region task as a pool job, the writer thread, the main thread
TaskStep(i) ==
    /\ i \in DOMAIN sc_task
    /\ \/ ScTaskStart(i) \/ ScTaskLock(i) \/ ScTaskChunk(i) \/ ScTaskSend(i)
       \/ ScTaskAddFound(i) \/ ScTaskCount(i) \/ ScTaskReport(i) \/ ScTaskSkip(i)
WriterThreadStep == WrRecv \/ WrCheck \/ WrDropRx \/ WrSort \/ WrClosed \/ WrTail
MainThreadStep == ScDropTx \/ ScFinish

\* the steps of one call while no other thread binds a process
ScanPoolNext ==
    \/ ScCallerCancel
    \/ \E i \in DOMAIN sc_task : TaskStep(i)
    \/ WriterThreadStep
    \/ MainThreadStep

\* scan_all_pointers on a pool of PoolThreads threads; every thread that can
\* take a step eventually takes one (the caller's cancellation is free)
InitScanPool == ChainIdle /\ FindIdle /\ QueueIdle /\ DriverIdle /\ FuzzyIdle /\ RefineIdle /\ RangeIdle /\ ScanInitPool
SpecScanPool ==
    /\ InitScanPool
    /\ [][ScanPoolNext]_vars
    /\ \A i \in DOMAIN PoolRegions : WF_vars(TaskStep(i))
    /\ WF_vars(WriterThreadStep)
    /\ WF_vars(MainThreadStep)

\* the JNI methods of driver.rs called from two threads, in every order
InitDriver == ChainIdle /\ FindIdle /\ QueueIdle /\ ScanIdle /\ FuzzyIdle /\ RefineIdle /\ RangeIdle /\ DriverInit
SpecDriver == InitDriver /\ [][DriverNext]_vars

\* fuzzy_initial_scan over every input, with cancellation at any chunk
InitFuzzy == ChainIdle /\ FindIdle /\ QueueIdle /\ ScanIdle /\ DriverIdle /\ RefineIdle /\ RangeIdle /\ FuzzyInit
SpecFuzzy == InitFuzzy /\ [][FuzzyNext]_vars

\* fuzzy_initial_scan for every chunk_size; the thread that runs the loop
\* keeps running (the caller's cancellation is free)
SpecFuzzyAny == InitFuzzy /\ [][FuzzyNext]_vars /\ WF_vars(FzEnter \/ FzChunk \/ FzReturn)

\* fuzzy_refine_search over every input, with cancellation at any point
InitRefine == ChainIdle /\ FindIdle /\ QueueIdle /\ ScanIdle /\ DriverIdle /\ FuzzyIdle /\ RangeIdle /\ RefineInit
SpecRefine == InitRefine /\ [][RefineNext]_vars

InitQueueShared == ChainIdle /\ FindIdle /\ ScanIdle /\ DriverIdle /\ FuzzyIdle /\ RefineIdle /\ RangeIdle /\ QueueInitTwo
SpecQueueShared == InitQueueShared /\ [][QueueNext]_vars

\* ------------------------------------------------------------------------
\* Dereferencing a chain over the memory image the queue was scanned from
\* ------------------------------------------------------------------------

\* the u64 stored at addr in the image (each queue record is one stored word)
HasWord(queue, addr) == \E r \in Range(queue) : r.address = addr
WordAt(queue, addr) == (CHOOSE r \in Range(queue) : r.address = addr).value

ModuleBase(modules, step) ==
    (CHOOSE m \in Range(modules) :
        m.name = step.module_name /\ m.index = step.module_index).base

\* follow steps[i..]: dereference the u64 at addr, add the offset; -1 when
\* the walk leaves the image
RECURSIVE Walk(_, _, _, _)
Walk(queue, steps, i, addr) ==
    IF i > Len(steps)
    THEN addr
    ELSE IF ~HasWord(queue, addr)
         THEN -1
         ELSE Walk(queue, steps, i + 1,
                   wrapping_add_signed(WordAt(queue, addr), steps[i].offset))

Resolve(chain, inp) ==
    Walk(inp.queue.records, chain.steps, 2,
         ModuleBase(inp.modules, chain.steps[1]) + chain.steps[1].offset)

ReturnedChains == IF cb_ret.returned /\ cb_ret.ok THEN Range(cb_ret.chains) ELSE {}

\* ------------------------------------------------------------------------
\* Claims
\* ------------------------------------------------------------------------

\* C1: every returned chain starts with a StaticRoot, continues with
\* DynamicOffsets only, and has 1 <= depth() <= max_depth, depth() being
\* steps.len() - 1 (also when the static pointer's value equals the target).
C1_ChainShape ==
    \A c \in ReturnedChains :
        /\ Len(c.steps) >= 1
        /\ c.steps[1].kind = "StaticRoot"
        /\ \A i \in 2..Len(c.steps) : c.steps[i].kind = "DynamicOffset"
        /\ 1 <= Len(c.steps) - 1
        /\ Len(c.steps) - 1 <= cb_in.config.max_depth

\* C2: chain reconstruction law: walking a returned chain from
\* module_base + base_offset, dereferencing and adding each DynamicOffset in
\* order, ends at config.target_address.
C2_Reconstruction ==
    \A c \in ReturnedChains : Resolve(c, cb_in) = cb_in.config.target_address

\* the records of the queue within max_offset of the target, in queue order,
\* each with offset = target - value
InWindow(r, t, m) == (IF r.value >= t THEN r.value - t ELSE t - r.value) <= m
ExpectedPointers(queue, t, m) ==
    LET hits == SelectSeq(queue, LAMBDA r : InWindow(r, t, m))
    IN  [k \in 1..Len(hits) |-> <<hits[k].address, t - hits[k].value>>]

\* C3: on a sorted queue whose mapping is present, find_pointers_to_range
\* returns exactly the records r with |r.value - t| <= m, each with offset
\* t - r.value, also when t - m underflows or t + m reaches u64::MAX.
C3_FindExact ==
    (fp_pc = "done" /\ fp_in.queue.mmap) =>
        fp_out = ExpectedPointers(fp_in.queue.records, fp_in.target, fp_in.max_offset)

\* C4 (as stated): on boundary scenario d the builder returns exactly the chain
\* [StaticRoot(libA,_,0x100), DynamicOffset(0), DynamicOffset(0)] of depth 2.
C4_ScenarioD_OneChain ==
    (cb_in = ScenarioD /\ cb_ret.returned /\ ~cb_cancelled) =>
        /\ Len(cb_ret.chains) = 1
        /\ LET st == cb_ret.chains[1].steps
           IN  /\ Len(st) = 3
               /\ st[1].kind = "StaticRoot" /\ st[1].module_name = "libA"
               /\ st[1].offset = 256
               /\ st[2] = dynamic_offset(0) /\ st[3] = dynamic_offset(0)

\* C4 (amended): on boundary scenario d the builder returns no chain: the only
\* pointer to the target is stored at 0x10100 and, with max_offset = 0, no
\* record has the value 0x10100.
C4_ScenarioD_NoChain ==
    (cb_in = ScenarioD /\ cb_ret.returned) => (cb_ret.ok /\ cb_ret.chains = <<>>)

\* C4 witness: scenario d ran both layers to the end and returned.
C4_Witness ==
    cb_in = ScenarioD /\ cb_ret.returned /\ ~cb_cancelled /\ cb_depth = 2

\* C7: once the loop has observed the caller's cancellation, the call does
\* not return a successful result that holds chains found before it.
C7_CancelDiscards ==
    (cb_ret.returned /\ cb_cancelled) => ~(cb_ret.ok /\ cb_ret.chains # <<>>)


\* what get(i) returns for a record that reads back intact
SomeRecord(item) == [some |-> TRUE, fault |-> FALSE, rec |-> item]

\* C9: MmapQueue round trip: while every push / push_batch call has returned
\* Ok (grow + remap steps included), len() is the number of pushed items and
\* get(i) is the i-th pushed item for every i < len().
C9_RoundTrip ==
    \A h \in mq_handles :
        (mq[h].alive /\ mq_all_ok[h]) =>
            /\ len(mq[h]) = Len(mq_pushed[h])
            /\ \A i \in 0..(len(mq[h]) - 1) :
                   get(fs, mq[h], i) = SomeRecord(mq_pushed[h][i + 1])

\* C9 witness: a queue that grew its file holds three or more records, the
\* last one different from the first.
C9_Witness ==
    /\ mq[1].alive /\ mq_all_ok[1]
    /\ mq[1].capacity > INITIAL_SIZE
    /\ len(mq[1]) >= 3
    /\ mq_pushed[1][len(mq[1])] # mq_pushed[1][1]

\* the words the backing file holds for index entry i (0-based), <<>> when
\* the file no longer reaches that far
FileRecordWords(w, q, i) ==
    LET offset == q.indices[i + 1][1]
        length == q.indices[i + 1][2]
        f == w.inodes[q.file]
    IN  IF offset + length > f.len
        THEN <<>>
        ELSE SubSeq(f.words, offset \div WORD + 1, (offset + length) \div WORD)

\* C10: a live MmapQueue exclusively owns its backing file: the file exists
\* at its path from new() until drop and holds what the queue itself pushed,
\* whatever other MmapQueue::new / drop calls use the same cache directory.
C10_ExclusiveFile ==
    \A h \in mq_handles :
        mq[h].alive =>
            /\ FileExists(fs, mq[h].file_path)
            /\ fs.dir[InodeOf(fs, mq[h].file_path)].ino = mq[h].file
            /\ Len(mq[h].indices) = Len(mq_pushed[h])
            /\ \A i \in 0..(Len(mq_pushed[h]) - 1) :
                   FileRecordWords(fs, mq[h], i) = to_bytes(mq_pushed[h][i + 1])


\* ------------------------------------------------------------------------
\* Claims about scan_all_pointers
\* ------------------------------------------------------------------------

\* the records of the queue scan_all_pointers returned, by index
ReturnedRecord(i) == get(fs, sc_ret.queue, i).rec
ReturnedIndices == 0..(len(sc_ret.queue) - 1)
ScanReturnedQueue == sc_ret.returned /\ sc_ret.ok

\* C5: when scan_all_pointers returns a queue, every index of it reads back a
\* record and the values are non-decreasing by index
C5_QueueSorted ==
    ScanReturnedQueue =>
        \A i, j \in ReturnedIndices :
            /\ get(fs, sc_ret.queue, i).some
            /\ ~get(fs, sc_ret.queue, i).fault
            /\ (i < j => ReturnedRecord(i).value <= ReturnedRecord(j).value)

\* a queue of four or more records merged from two or more runs, one region
\* of which was found in an order that does not ascend by value
C5_Witness ==
    /\ ScanReturnedQueue
    /\ len(sc_ret.queue) >= 4
    /\ Len(sc_writer.temp_files) >= 2
    /\ \E t \in DOMAIN sc_task :
          /\ Len(sc_task[t].found) >= 2
          /\ sc_task[t].found[1].value > sc_task[t].found[2].value

\* C6: every record of the returned queue has a value that, masked to 48
\* bits, lies in an input region, an address in an input region, and an
\* address that is a multiple of config.align
InSomeRegion(a) ==
    \E k \in DOMAIN sc_in.regions :
        sc_in.regions[k].start <= a /\ a < sc_in.regions[k].end
C6_RecordsValid ==
    ScanReturnedQueue =>
        \A i \in ReturnedIndices :
            /\ InSomeRegion(mask48(ReturnedRecord(i).value))
            /\ InSomeRegion(ReturnedRecord(i).address)
            /\ ReturnedRecord(i).address % sc_in.align = 0

\* C8: when the caller's predicate turned true while the last region tasks
\* were still scanning, the call returns no queue
C8_CancelReturnsNoQueue ==
    (sc_ret.returned /\ sc_pred_when = "scanning") => ~sc_ret.ok

\* ------------------------------------------------------------------------
\* Claims about the DriverManager and the JNI methods
\* ------------------------------------------------------------------------

\* the bindings held by nativeBindProcess calls between their two locks
InFlightHandles == { jni_bind[t].handle : t \in { u \in Threads : jni_bind[u].pc = "store" } }

\* the stored pid and handle come from one bind call, the handle is held in
\* the driver, and every other binding the driver holds is in flight
C11_Consistent ==
    /\ dm.bind_handle.pid = dm.bound_pid
    /\ (dm.bound_pid = 0) = (dm.bind_handle = NoHandle)
    /\ dm.bound_pid # 0 => dm.bind_handle \in drv_live
    /\ drv_live \subseteq ({dm.bind_handle} \cup InFlightHandles)
    /\ dm_last_change = "unbind" => dm.bound_pid = 0
    /\ dm_last_change = "bind" => dm.bound_pid \in AlivePids

\* a bind that returns either failed and left the binding as it was, or
\* stored its pid with a handle for that pid and released the prior binding
C11_Step ==
    (jni_ret' # jni_ret /\ jni_ret'.op = "bind_proc") =>
        IF jni_ret'.res = "ok" /\ jni_ret'.val = 1
        THEN /\ dm'.bound_pid = jni_ret'.arg
             /\ dm'.bind_handle.pid = jni_ret'.arg
             /\ dm'.bind_handle \in drv_live'
             /\ dm'.bind_handle # dm.bind_handle
             /\ dm.bind_handle \notin drv_live'
        ELSE /\ dm'.bound_pid = dm.bound_pid
             /\ dm'.bind_handle = dm.bind_handle

\* C11: bind_process fails and leaves (bound_pid, bind_handle) as before, or
\* stores pid with the handle obtained for that pid and releases the prior
\* binding; under every interleaving of binds and unbinds the stored pid and
\* handle belong to one bind call, and the binding is that of a successful
\* bind, or none after an unbind
C11_BindAtomic == [](C11_Consistent) /\ [][C11_Step]_vars

\* a bind stored pid 9 over the binding of pid 7 while the other thread's
\* bind is between its two locks
C11_Witness ==
    /\ jni_ret.op = "bind_proc" /\ jni_ret.res = "ok" /\ jni_ret.val = 1
    /\ jni_ret.before.bound_pid = 7
    /\ dm.bound_pid = 9
    /\ \E t \in Threads : jni_bind[t].pc = "store"

\* C12: is_process_bound() is true exactly when get_bound_pid() is not 0,
\* exactly when the last call that changed the binding was a successful
\* bind; after an unbind the pid is 0 and a read, write or region query made
\* with no binding fails
C12_BoundStateMachine ==
    /\ is_process_bound(dm) = (get_bound_pid(dm) # 0)
    /\ (get_bound_pid(dm) # 0) = (dm_last_change = "bind")
    /\ (jni_ret.op = "unbind_proc" /\ jni_ret.res = "ok") => get_bound_pid(dm) = 0
    /\ (jni_ret.op \in {"read_memory", "write_memory", "query_mem_regions"}
          /\ get_bound_pid(jni_ret.before) = 0) => jni_ret.res = "throw"
    /\ (jni_ret.op = "is_proc_bound" /\ ~jni_ret.poisoned)
          => (jni_ret.val = 1) = (dm_last_change = "bind")
    /\ (jni_ret.op = "get_current_bind_pid" /\ ~jni_ret.poisoned)
          => (jni_ret.val # 0) = (dm_last_change = "bind")

\* a read fails after the unbind of a process that was bound
C12_Witness ==
    /\ jni_ret.op = "read_memory" /\ jni_ret.arg > 0 /\ jni_ret.res = "throw"
    /\ ~jni_ret.poisoned
    /\ dm_last_change = "unbind"
    /\ drv_next > 1 /\ drv_live = {}
    /\ get_bound_pid(dm) = 0

\* C13: when the self-check of set_driver fails, the call fails and no
\* driver is left installed
C13_SelfCheckGate ==
    (jni_ret.op = "set_driver_fd" /\ jni_ret.res = "throw"
       /\ ~is_driver_loaded(jni_ret.before)) => ~is_driver_loaded(dm)

\* C14: a JNI call made while the lock is poisoned returns an error
C14_PoisonIsError ==
    (jni_ret.op # "none" /\ jni_ret.poisoned) => jni_ret.res = "throw"

\* C15: set_access_mode with an id that names no MemoryAccessMode fails and
\* leaves the manager (the stored mode and the driver configuration) as it
\* was; with a known id, once the lock is taken, it returns normally and
\* the manager differs from before in the stored mode only, which is the
\* mode of that id
C15_SetAccessMode ==
    jni_ret.op = "set_memory_access_mode" =>
        IF jni_ret.arg \notin KnownModeIds
        THEN jni_ret.res = "throw" /\ dm = jni_ret.before
        ELSE ~jni_ret.poisoned =>
                /\ jni_ret.res = "ok"
                /\ dm = [jni_ret.before EXCEPT !.mode = jni_ret.arg]

\* an unknown id was refused after an earlier call with a known id had
\* recorded a mode other than the initial one, which is still the stored mode
C15_Witness ==
    /\ jni_ret.op = "set_memory_access_mode"
    /\ jni_ret.arg \notin KnownModeIds
    /\ ~jni_ret.poisoned
    /\ jni_ret.res = "throw"
    /\ dm = jni_ret.before
    /\ dm.mode # DriverManager_new.mode
    /\ is_driver_loaded(dm)

\* C16: a read with size <= 0 or with no process bound, and a write of zero
\* bytes or with no process bound, fail with no driver I/O and leave the
\* manager as it was
C16_InvalidIoFailsEarly ==
    /\ (jni_ret.op = "read_memory"
          /\ (jni_ret.arg <= 0 \/ ~is_process_bound(jni_ret.before)))
       => (jni_ret.res = "throw" /\ ~jni_ret.io /\ dm = jni_ret.before)
    /\ (jni_ret.op = "write_memory"
          /\ (jni_ret.arg = 0 \/ ~is_process_bound(jni_ret.before)))
       => (jni_ret.res = "throw" /\ ~jni_ret.io /\ dm = jni_ret.before)

\* a read of 8 bytes was refused because no process is bound, the driver
\* being loaded
C16_Witness ==
    /\ jni_ret.op = "read_memory" /\ jni_ret.arg > 0
    /\ ~jni_ret.poisoned
    /\ is_driver_loaded(dm)
    /\ ~is_process_bound(jni_ret.before)
    /\ jni_ret.res = "throw"

\* C17: once the driver has handed nativeQueryMemRegions an fd, the fd is
\* closed exactly once and every mapping made is unmapped before the return
C17_QueryReleases ==
    (jni_ret.op = "query_mem_regions" /\ jni_ret.fd_given) =>
        (jni_ret.closes = 1 /\ jni_ret.unmaps = jni_ret.maps)


\* ------------------------------------------------------------------------
\* fuzzy_initial_scan: what a completed scan returns
\* ------------------------------------------------------------------------

\* the chunk of the scan that holds address a
FuzzyChunkOf(in, a) ==
    IF in.chunk_size = 0
    THEN page_align_down(in.start)
    ELSE page_align_down(in.start)
         + ((a - page_align_down(in.start)) \div in.chunk_size) * in.chunk_size

\* the page of a was read: its chunk did not fail and the driver could read
\* the page
FuzzyPageRead(in, a) ==
    /\ FuzzyChunkOf(in, a) \notin in.env.fail_chunks
    /\ (a \div PAGE_SIZE) \notin in.env.bad_pages

\* the item of address a: the bytes of memory at a under the value type
FuzzyItemAt(in, a) ==
    FuzzySearchResultItem_from_bytes(
        a, [k \in 1..value_size(in.value_type) |-> in.env.mem[a + k]], in.value_type)

\* the element-aligned addresses of [start, end) in pages that were read
FuzzyAligned(in) ==
    { a \in in.start..(in.end - 1) :
        a % value_size(in.value_type) = 0 /\ FuzzyPageRead(in, a) }

FuzzyCompleted == fz_ret.returned /\ fz_ret.ok /\ ~fz_ret.cancelled

\* C18 as stated: a scan that was not cancelled returns one item for every
\* element-aligned address of [start, end) whose page was read, and no other
C18_EveryAlignedAddress ==
    FuzzyCompleted =>
        fz_ret.items = { FuzzyItemAt(fz_in, a) : a \in FuzzyAligned(fz_in) }

\* what the driver returned for the chunk that holds a
FuzzyChunkRead(in, a) ==
    read_memory_unified(in.env, FuzzyChunkOf(in, a),
                        Min(FuzzyChunkOf(in, a) + in.chunk_size, in.end)
                          - FuzzyChunkOf(in, a))

\* the slice of a: the page-sized piece, counted from the first byte of its
\* chunk, that holds a (a memory page when chunk_size is a multiple of the
\* page size); its index in the bitmap and its end, cut at the chunk's end
FuzzySliceIndex(in, a) == (a - FuzzyChunkOf(in, a)) \div PAGE_SIZE + 1
FuzzySliceEnd(in, a) ==
    Min(FuzzyChunkOf(in, a) + FuzzySliceIndex(in, a) * PAGE_SIZE,
        Min(FuzzyChunkOf(in, a) + in.chunk_size, in.end))

\* the element-aligned addresses of [start, end) whose element lies wholly
\* in a slice that the bitmap of its chunk marks read
FuzzyWholeElements(in) ==
    { a \in in.start..(in.end - 1) :
        /\ a % value_size(in.value_type) = 0
        /\ a + value_size(in.value_type) <= FuzzySliceEnd(in, a)
        /\ FuzzyChunkRead(in, a).res = "Ok"
        /\ FuzzySliceIndex(in, a) \in DOMAIN FuzzyChunkRead(in, a).page_ok
        /\ FuzzyChunkRead(in, a).page_ok[FuzzySliceIndex(in, a)] }

\* the item of address a with the bytes the driver returned for a
FuzzyItemRead(in, a) ==
    FuzzySearchResultItem_from_bytes(
        a,
        SubSeq(FuzzyChunkRead(in, a).buffer,
               a - FuzzyChunkOf(in, a) + 1,
               a - FuzzyChunkOf(in, a) + value_size(in.value_type)),
        in.value_type)

\* what the scan returns when it is never cancelled
FuzzyFullResult(in) == { FuzzyItemRead(in, a) : a \in FuzzyWholeElements(in) }

\* C18 amended: a scan that returns without having been cancelled returns one
\* item for every element-aligned address a of [start, end) whose element
\* [a, a + element_size) lies wholly inside [start, end) and inside one slice
\* that the bitmap marks read, and no other item; each item carries the bytes
\* read at its address. With chunk_size a multiple of the page size these are
\* the element-aligned addresses in read pages with a + element_size <= end,
\* with the bytes of memory; one readable page of U32 gives PAGE_SIZE / 4 items
C18_EveryCompleteElement ==
    FuzzyCompleted =>
        /\ fz_ret.items = FuzzyFullResult(fz_in)
        /\ \A it \in fz_ret.items :
             /\ it.address >= fz_in.start
             /\ it.address + value_size(fz_in.value_type) <= fz_in.end
             /\ it.address % value_size(fz_in.value_type) = 0
             /\ FuzzyChunkOf(fz_in, it.address) \notin fz_in.env.fail_chunks
        /\ fz_in.chunk_size % PAGE_SIZE = 0 =>
             fz_ret.items =
               { FuzzyItemAt(fz_in, a) :
                   a \in { b \in FuzzyAligned(fz_in) :
                             b + value_size(fz_in.value_type) <= fz_in.end } }
        /\ (/\ fz_in.value_type = "U32"
            /\ fz_in.start = PAGE_SIZE
            /\ fz_in.end = 2 * PAGE_SIZE
            /\ fz_in.env.bad_pages = {} /\ fz_in.env.fail_chunks = {})
           => Cardinality(fz_ret.items) = PAGE_SIZE \div 4

\* a completed U32 scan of a range that starts inside a page and ends inside
\* an element, read in chunks that are no multiple of the page size: the
\* elements at 2 * PAGE_SIZE and 3 * PAGE_SIZE cross the end of a slice, the
\* one at 3 * PAGE_SIZE + 4 crosses the end of the range
C18_Witness ==
    /\ FuzzyCompleted
    /\ fz_in.value_type = "U32"
    /\ fz_in.start = PAGE_SIZE + 3
    /\ fz_in.end = 3 * PAGE_SIZE + 6
    /\ fz_in.chunk_size = PAGE_SIZE + 2
    /\ \E it \in fz_ret.items : it.address = PAGE_SIZE + 4
    /\ \E it \in fz_ret.items : it.address = 2 * PAGE_SIZE + 4
    /\ ~\E it \in fz_ret.items : it.address = 2 * PAGE_SIZE
    /\ ~\E it \in fz_ret.items : it.address = 3 * PAGE_SIZE
    /\ ~\E it \in fz_ret.items : it.address = 3 * PAGE_SIZE + 4
    /\ Len(fz_reads) >= 3


\* ------------------------------------------------------------------------
\* fuzzy_refine_search: what a pass returns
\* ------------------------------------------------------------------------

\* the re-read of an item's address
RefineReread(in, it) ==
    read_memory_plain(in.env, it.address, value_size(it.value_type))

\* the input items whose re-read succeeded and whose new bytes match
RefineKept(in) ==
    { it \in Range(in.items) :
        /\ RefineReread(in, it).res = "Ok"
        /\ matches_condition(it, RefineReread(in, it).buffer, in.condition) }

\* C19: a pass during which the predicate never turned true returns exactly
\* the input items whose re-read succeeded and whose new bytes match the
\* condition, each with the new bytes and the old value type; the addresses
\* of any returned set are addresses of the input
C19_RefineExact ==
    /\ (fr_ret.returned /\ fr_ret.ok /\ ~fr_pred) =>
          fr_ret.items =
            { FuzzySearchResultItem_from_bytes(
                  it.address, RefineReread(fr_in, it).buffer, it.value_type) :
              it \in RefineKept(fr_in) }
    /\ \A r \in fr_ret.items :
          \E it \in Range(fr_in.items) :
             r.address = it.address /\ r.value_type = it.value_type

\* a pass without cancellation that dropped an unreadable item, dropped an
\* item that did not match and kept an item with bytes that differ from
\* the old ones
C19_Witness ==
    /\ fr_ret.returned /\ fr_ret.ok /\ ~fr_pred
    /\ Len(fr_read) < Len(fr_in.items)
    /\ Cardinality(fr_ret.items) < Len(fr_read)
    /\ \E r \in fr_ret.items :
          \E it \in Range(fr_in.items) :
             r.address = it.address /\ r.value_bytes # it.value_bytes

\* C20: when the I/O loop saw the cancellation at index k, the reads issued
\* are those of the items below k and the call returns the matches among
\* the pairs read before k
C20_PartialFiltered ==
    (fr_ret.returned /\ fr_seen >= 0) =>
        /\ fr_reads = [j \in 1..fr_seen |-> fr_in.items[j].address]
        /\ fr_ret.items =
             UNION { refine_match(fr_read[j][1], fr_read[j][2], fr_in.condition) :
                     j \in 1..Len(fr_read) }


\* ------------------------------------------------------------------------
\* fuzzy_initial_scan: cancellation at the start of a chunk
\* ------------------------------------------------------------------------

\* the chunks [current, chunk_end) below address limit, in order
RECURSIVE FuzzyChunksBelow(_, _, _)
FuzzyChunksBelow(in, current, limit) ==
    IF current >= limit \/ current >= in.end
    THEN <<>>
    ELSE <<<<current, Min(current + in.chunk_size, in.end) - current>>>>
         \o FuzzyChunksBelow(in, Min(current + in.chunk_size, in.end), limit)

\* C21: a scan whose predicate returned true at the start of the chunk at
\* `current` returns Ok with the items of the full scan below `current`, has
\* read the chunks below `current` and no other, and reads nothing afterwards
C21_CancelReturnsPrefix ==
    (fz_ret.returned /\ fz_ret.cancelled) =>
        /\ fz_ret.ok
        /\ fz_ret.items =
             { it \in FuzzyFullResult(fz_in) : it.address < fz_current }
        /\ \A k \in 1..Len(fz_reads) : fz_reads[k][1] + fz_reads[k][2] <= fz_current
        /\ fz_in.chunk_size > 0 =>
             fz_reads = FuzzyChunksBelow(fz_in, page_align_down(fz_in.start),
                                         fz_current)
        /\ fz_current < fz_in.end

\* a scan cancelled after at least one chunk, with items found and with
\* items of the full scan left unread
C21_Witness ==
    /\ fz_ret.returned /\ fz_ret.cancelled
    /\ Len(fz_reads) >= 1
    /\ fz_ret.items # {}
    /\ fz_ret.items # FuzzyFullResult(fz_in)


\* ------------------------------------------------------------------------
\* fuzzy_refine_search: Unchanged twice on static memory
\* ------------------------------------------------------------------------

\* memory is static since the items were taken: every readable item
\* holds the bytes that memory holds
RefineStatic(in, items) ==
    \A j \in 1..Len(items) :
        RefineReread(in, items[j]).res = "Ok"
            => RefineReread(in, items[j]).buffer = items[j].value_bytes

\* C22: on static memory and without cancellation, two calls with Unchanged
\* in succession return the same set, which is the set of the input items
\* whose address is readable
C22_UnchangedIdempotent ==
    (/\ fr_ret.returned /\ fr_ret.ok /\ fr_pass = 2 /\ ~fr_pred
     /\ fr_in.condition.kind = "Unchanged"
     /\ RefineStatic(fr_in, fr_first.items)) =>
        /\ fr_ret.items = fr_first.result
        /\ fr_first.result =
             { it \in Range(fr_first.items) : RefineReread(fr_in, it).res = "Ok" }

\* two Unchanged calls on static memory where an item of the input was not
\* readable and others were kept
C22_Witness ==
    /\ fr_ret.returned /\ fr_ret.ok /\ fr_pass = 2 /\ ~fr_pred
    /\ fr_in.condition.kind = "Unchanged"
    /\ RefineStatic(fr_in, fr_first.items)
    /\ Cardinality(fr_ret.items) >= 2
    /\ Cardinality(fr_ret.items) < Len(fr_first.items)


\* ------------------------------------------------------------------------
\* fuzzy_refine_search: the counter and the last progress callback
\* ------------------------------------------------------------------------

\* C23: every call that has returned Ok left total_found_counter at the size
\* of the returned set and made update_progress(total_items, results.len())
\* its last progress callback
C23_FinalCounterAndProgress ==
    (fr_ret.returned /\ fr_ret.ok) =>
        /\ fr_total_found = Cardinality(fr_ret.items)
        /\ fr_progress # <<>>
        /\ fr_progress[Len(fr_progress)]
             = <<Len(fr_in.items), Cardinality(fr_ret.items)>>


\* ------------------------------------------------------------------------
\* scan_all_pointers: the temp files at return
\* ------------------------------------------------------------------------

\* the scan_chunk_<pid>_<uuid>.tmp files present in the file system
TempFilesPresent ==
    { i \in DOMAIN fs.dir :
        Len(fs.dir[i].path) = 4 /\ fs.dir[i].path[2] = "scan_chunk" }

\* C24: when scan_all_pointers has returned, with a queue or with any error,
\* no temp file of its writer thread is left
C24_NoTempFileLeft ==
    sc_ret.returned => TempFilesPresent = {}


\* ------------------------------------------------------------------------
\* scan_all_pointers: which pointers the scan finds
\* ------------------------------------------------------------------------

\* the u64 stored at address a of the scanned memory
ScannedWordAt(a) == from_le_bytes([k \in 1..PTR_BYTES |-> sc_in.env.mem[a + k]])

\* the start of the chunk of region that holds a
ChunkStartOf(region, a) ==
    region.start + ((a - region.start) \div CHUNK_SIZE) * CHUNK_SIZE

\* [a, a + 8) lies in one chunk of region, in pages the driver has read
InOneReadChunk(region, a) ==
    /\ a + PTR_BYTES <= Min(ChunkStartOf(region, a) + CHUNK_SIZE, region.end)
    /\ ~sc_in.env.poisoned
    /\ ChunkStartOf(region, a) \notin sc_in.env.fail_chunks
    /\ (a \div PAGE_SIZE) \notin sc_in.env.bad_pages
    /\ ((a + PTR_BYTES - 1) \div PAGE_SIZE) \notin sc_in.env.bad_pages

\* the addresses of region the scan has to report
MustBeFound(region) ==
    { a \in region.start..(region.end - PTR_BYTES) :
        /\ a % sc_in.align = 0
        /\ InOneReadChunk(region, a)
        /\ InSomeRegion(mask48(ScannedWordAt(a))) }

\* C25: the returned queue holds the record of every align-aligned address
\* of an input region whose 8 bytes lie in read pages of one chunk and whose
\* value, masked to 48 bits, lies in an input region
C25_OnlyChunkStraddlersMissed ==
    ScanReturnedQueue =>
        \A k \in DOMAIN sc_in.regions :
            \A a \in MustBeFound(sc_in.regions[k]) :
                \E i \in ReturnedIndices :
                    ReturnedRecord(i) = PointerData(a, ScannedWordAt(a))


\* ------------------------------------------------------------------------
\* scan_all_pointers: a chunk whose read fails
\* ------------------------------------------------------------------------

\* the 8 bytes at a lie in one page
InOnePage(a) == (a \div PAGE_SIZE) = ((a + PTR_BYTES - 1) \div PAGE_SIZE)

\* a region task that ran its chunk loop to the end and was not cut short
\* by the cancellation flag
TaskScanned(i) ==
    /\ sc_task[i].st \in {"send", "add_found", "count", "report", "done"}
    /\ ~sc_in.env.poisoned
    /\ ~sc_cancelled

\* C26: a chunk whose read fails does not end the scan of its region: the
\* loop goes on to the end of the region and the task holds the pointers
\* of every chunk that was read, and a returned queue holds every record
\* the tasks found
C26_FailedChunkSkipped ==
    /\ \A i \in DOMAIN sc_task :
          TaskScanned(i) =>
             /\ sc_task[i].cur = sc_in.regions[i].end
             /\ \A a \in MustBeFound(sc_in.regions[i]) :
                   InOnePage(a) =>
                      PointerData(a, ScannedWordAt(a)) \in Range(sc_task[i].found)
    /\ \A i \in DOMAIN sc_task : ~TaskFailed(sc_task[i]) \/ sc_cancelled \/ ~sc_rx_alive
    /\ ScanReturnedQueue =>
          \A i \in DOMAIN sc_task :
             \A r \in Range(sc_task[i].found) :
                \E j \in ReturnedIndices : ReturnedRecord(j) = r

\* a queue returned by a scan in which the first chunk of region C failed
\* and the pointer in its second chunk was found
C26_Witness ==
    /\ ScanReturnedQueue
    /\ 5 * PAGE_SIZE \in sc_in.env.fail_chunks
    /\ \E i \in DOMAIN sc_in.regions : sc_in.regions[i] = RegionC
    /\ \E j \in ReturnedIndices : ReturnedRecord(j).address = 7 * PAGE_SIZE


\* ------------------------------------------------------------------------
\* build_pointer_chains: the order of the returned chains
\* ------------------------------------------------------------------------

\* C27: for consecutive returned chains a, b either depth(a) < depth(b), or
\* depth(a) = depth(b) and the root module name of a is not after that of b
C27_ChainsOrdered ==
    (cb_ret.returned /\ cb_ret.ok) =>
        \A i \in 1..(Len(cb_ret.chains) - 1) :
            LET a == cb_ret.chains[i]
                b == cb_ret.chains[i + 1]
            IN  \/ chain_depth(a) < chain_depth(b)
                \/ /\ chain_depth(a) = chain_depth(b)
                   /\ NameRank(a.steps[1].module_name)
                        <= NameRank(b.steps[1].module_name)

\* two returned chains of one depth, the libB chain pushed at BFS depth 0
\* and the libA chain pushed after it at BFS depth 1, returned libA first
C27_Witness ==
    /\ cb_ret.returned /\ cb_ret.ok
    /\ Len(cb_ret.chains) = 2
    /\ chain_depth(cb_ret.chains[1]) = chain_depth(cb_ret.chains[2])
    /\ cb_ret.chains[1].steps[1].module_name = "libA"
    /\ cb_ret.chains[2].steps[1].module_name = "libB"
    /\ Len(cb_progress) >= 2
    /\ cb_progress[1] = <<1, 1>>
    /\ cb_progress[2] = <<2, 2>>


\* ------------------------------------------------------------------------
\* scan_all_pointers: the bounded channel
\* ------------------------------------------------------------------------

\* the channel never holds more than 4 batches
C28_ChannelBounded == Len(sc_chan) <= ChannelCap

\* a worker whose send would exceed the bound: the channel holds 4 batches
\* and the receiver is alive
SendBlocked(i) ==
    /\ sc_task[i].st = "send"
    /\ Len(sc_chan) >= ChannelCap
    /\ sc_rx_alive

\* a blocked worker stays in its send, and while it is blocked the channel
\* changes only by a step of the writer thread, which takes the oldest batch
\* or drops the receiver; a send ends with the batch appended to a channel
\* whose receiver is alive, or with an error when the receiver is gone
C28_SendStep ==
    \A i \in DOMAIN sc_task :
        /\ (SendBlocked(i) /\ i \in DOMAIN sc_task') =>
              /\ sc_task'[i] = sc_task[i]
              /\ (sc_chan' # sc_chan \/ sc_rx_alive' # sc_rx_alive) =>
                    /\ sc_writer' # sc_writer
                    /\ \/ sc_chan' = Tail(sc_chan) /\ sc_rx_alive'
                       \/ ~sc_rx_alive'
        /\ (/\ sc_task[i].st = "send"
            /\ i \in DOMAIN sc_task'
            /\ sc_task'[i].st # "send") =>
              \/ /\ sc_task'[i].st = "add_found"
                 /\ sc_rx_alive
                 /\ sc_chan' = Append(sc_chan, sc_task[i].found)
                 /\ Len(sc_chan') <= ChannelCap
              \/ /\ sc_task'[i].st = "err_disconnected"
                 /\ ~sc_rx_alive
                 /\ sc_chan' = sc_chan

\* C28: under every interleaving the channel holds at most 4 pending
\* batches, and a worker whose send would exceed that stays in the send
\* until the writer has taken a batch or the receiver is dropped
C28_Backpressure == [](C28_ChannelBounded) /\ [][C28_SendStep]_vars

\* a worker waiting in send on a channel that holds 4 batches and whose
\* receiver is alive
C28_Witness ==
    /\ Len(sc_chan) = ChannelCap
    /\ ChannelCap = 4
    /\ sc_rx_alive
    /\ \E i \in DOMAIN sc_task : SendBlocked(i)


\* ------------------------------------------------------------------------
\* scan_all_pointers: the records of the queue and of the region scans
\* ------------------------------------------------------------------------

\* how often record r occurs in the returned queue
QueueCount(r) == Cardinality({ i \in ReturnedIndices : ReturnedRecord(i) = r })

\* how often record r occurs in the vectors the region scans returned
FoundSlots ==
    UNION { { <<i, j>> : j \in DOMAIN sc_task[i].found } : i \in DOMAIN sc_task }
FoundCount(r) == Cardinality({ p \in FoundSlots : sc_task[p[1]].found[p[2]] = r })

\* C29: a returned queue holds the records the region scans returned, each
\* as often as they returned it, and its length is the total found counter
C29_NoRecordLostOrDuplicated ==
    ScanReturnedQueue =>
        /\ len(sc_ret.queue) = sc_total_found
        /\ len(sc_ret.queue) = Cardinality(FoundSlots)
        /\ \A i \in ReturnedIndices : get(fs, sc_ret.queue, i).some
        /\ \A i \in ReturnedIndices :
              QueueCount(ReturnedRecord(i)) = FoundCount(ReturnedRecord(i))
        /\ \A p \in FoundSlots :
              QueueCount(sc_task[p[1]].found[p[2]])
                = FoundCount(sc_task[p[1]].found[p[2]])

\* a queue merged from two runs, the second being the remainder the writer
\* spilled at the end of the stream, with an odd number of records
C29_Witness ==
    /\ ScanReturnedQueue
    /\ Len(sc_writer.temp_files) >= 2
    /\ len(sc_ret.queue) >= 5
    /\ len(sc_ret.queue) % MergeBatch # 0


\* ------------------------------------------------------------------------
\* scan_all_pointers: the order of the phases
\* ------------------------------------------------------------------------

\* the temp files of a file system with their contents, and the other files
TempState(w) ==
    { <<w.dir[i].path, w.inodes[w.dir[i].ino]>> :
        i \in { j \in DOMAIN w.dir :
                  Len(w.dir[j].path) = 4 /\ w.dir[j].path[2] = "scan_chunk" } }
OtherState(w) ==
    { <<w.dir[i].path, w.inodes[w.dir[i].ino]>> :
        i \in { j \in DOMAIN w.dir :
                  ~(Len(w.dir[j].path) = 4 /\ w.dir[j].path[2] = "scan_chunk") } }

\* a run the writer has written in full: its length is that of its words,
\* a whole number of records, and not zero
RunComplete(w, path) ==
    /\ FileExists(w, path)
    /\ LET f == w.inodes[w.dir[InodeOf(w, path)].ino]
       IN  /\ f.len = Len(f.words) * WORD
           /\ f.len > 0
           /\ f.len % (2 * WORD) = 0

\* the file of a run
RunFile(w, path) == w.inodes[w.dir[InodeOf(w, path)].ino]

\* a step of the writer thread; the step in which main joins and finishes
WriterStep == sc_writer' # sc_writer
MainFinishStep == sc_pc = "join" /\ sc_pc' = "done"

C30_Step ==
    /\ ~(TempState(fs') \subseteq TempState(fs)) => (WriterStep /\ ~MainFinishStep)
    /\ OtherState(fs') # OtherState(fs) => (MainFinishStep /\ ~WriterStep)
    /\ sc_writer'.temp_files # sc_writer.temp_files =>
          /\ WriterStep
          /\ Len(sc_writer'.temp_files) = Len(sc_writer.temp_files) + 1
          /\ SubSeq(sc_writer'.temp_files, 1, Len(sc_writer.temp_files))
                = sc_writer.temp_files
          /\ LET path == sc_writer'.temp_files[Len(sc_writer'.temp_files)]
             IN  /\ ~FileExists(fs, path)
                 /\ RunComplete(fs', path)
                 /\ Len(RunFile(fs', path).words) = 2 * Len(sc_writer.buffer)
    /\ ~MainFinishStep =>
          \A k \in DOMAIN sc_writer.temp_files :
             /\ FileExists(fs', sc_writer.temp_files[k])
             /\ RunFile(fs', sc_writer.temp_files[k])
                  = RunFile(fs, sc_writer.temp_files[k])
    /\ MainFinishStep =>
          /\ \A i \in DOMAIN sc_task : TaskFinished(sc_task[i])
          /\ sc_writer.st = "done"
          /\ ~sc_rx_alive
          /\ \A k \in DOMAIN sc_writer.temp_files :
                RunComplete(fs, sc_writer.temp_files[k])

\* C30: temp files are created and written only by steps of the writer
\* thread, a run enters the writer's list in the step that has written the
\* whole buffer to a new file, and no step changes a listed run before main
\* finishes; main finishes (and merges) only after every region task has
\* finished, the sender is dropped and the writer has returned, with every
\* run written in full; the queue file is written only by main
C30_PhaseOrdering == [][C30_Step]_vars

\* a queue merged by main from two runs of the writer, in a scan of three
\* regions, the runs removed
C30_Witness ==
    /\ ScanReturnedQueue
    /\ Len(sc_in.regions) = 3
    /\ Len(sc_writer.temp_files) >= 2
    /\ len(sc_ret.queue) >= 3
    /\ TempState(fs) = {}

\* ------------------------------------------------------------------------
\* C31: the construction of the next layer
\* ------------------------------------------------------------------------

\* a candidate that the loop body pushes to the next layer
EligibleCandidate(candidate) ==
    /\ candidate.ptr_address # cb_in.config.target_address
    /\ \/ ~cb_in.config.scan_static_only
       \/ ~classify_pointer(candidate.ptr_address, cb_in.modules).some

\* a candidate that the loop body emits a chain for
EmittedCandidate(candidate) ==
    /\ candidate.ptr_address # cb_in.config.target_address
    /\ classify_pointer(candidate.ptr_address, cb_in.modules).some

\* the children of the eligible candidates among candidates[i..], in order
RECURSIVE ChildrenOfEligible(_, _)
ChildrenOfEligible(candidates, i) ==
    IF i > Len(candidates)
    THEN <<>>
    ELSE (IF EligibleCandidate(candidates[i])
          THEN << [current_target |-> candidates[i].ptr_address,
                   offset_history |->
                       Append(cb_layer[candidates[i].parent_idx + 1].offset_history,
                              candidates[i].offset)] >>
          ELSE <<>>)
         \o ChildrenOfEligible(candidates, i + 1)

FirstEntries(seq, n) == [k \in 1..Min(Len(seq), n) |-> seq[k]]

\* what one pass of the loop body must have produced
C31_LayerStep(candidates) ==
    /\ cb_layer' = IF cb_depth + 1 < cb_in.config.max_depth
                   THEN FirstEntries(ChildrenOfEligible(candidates, 1), cb_cap)
                   ELSE <<>>
    /\ Len(cb_results') = Len(cb_results)
           + Cardinality({ k \in 1..Len(candidates) : EmittedCandidate(candidates[k]) })
    /\ SubSeq(cb_results', 1, Len(cb_results)) = cb_results
    /\ cb_depth + 1 < cb_in.config.max_depth => cb_pc' = "loop"

C31_Step ==
    (cb_pc = "loop" /\ cb_depth' = cb_depth + 1)
        => C31_LayerStep(scatter(cb_layer, 1, cb_in.queue, cb_in.config.max_offset))

\* C31: at each depth the next layer is the children of all eligible
\* candidates in candidate order, without deduplication, cut to its first
\* MAX_CANDIDATES_PER_LAYER entries (none when depth + 1 = max_depth); every
\* chain of the pass is emitted and kept whether or not its candidate's child
\* was cut, and the loop goes on after the cut
C31_NextLayerExact == [][C31_Step]_vars

\* a layer was cut to the cap, a chain was emitted in that pass, and the loop
\* is about to run the next depth on the cut layer
C31_Witness ==
    /\ cb_pruned # <<>>
    /\ cb_pruned[Len(cb_pruned)][2] > Len(cb_layer)
    /\ Len(cb_layer) = cb_cap
    /\ cb_results # <<>>
    /\ cb_pc = "loop"

\* two nodes of one layer share the pointer address (reached under SpecChain)
C31_DuplicateNodes ==
    \E i, j \in 1..Len(cb_layer) :
        i < j /\ cb_layer[i].current_target = cb_layer[j].current_target

\* ------------------------------------------------------------------------
\* C32: scan_static_only
\* ------------------------------------------------------------------------

InStaticModule(addr) ==
    \E k \in 1..Len(cb_in.modules) :
        /\ cb_in.modules[k].base <= addr
        /\ addr < cb_in.modules[k].base + cb_in.modules[k].size

\* with the flag set no node below the origin lies in a static module
StaticNeverExpanded ==
    (cb_in.config.scan_static_only /\ cb_depth >= 1)
        => \A k \in 1..Len(cb_layer) : ~InStaticModule(cb_layer[k].current_target)

\* the candidates other than the origin, in candidate order
NonOriginCandidates(candidates) ==
    SelectSeq(candidates,
              LAMBDA c : c.ptr_address # cb_in.config.target_address)

\* with the flag cleared every candidate but the origin gets its node, pushed
\* in candidate order before the layer cap applies
AllExpandedStep ==
    (/\ cb_pc = "loop" /\ cb_depth' = cb_depth + 1
     /\ ~cb_in.config.scan_static_only
     /\ cb_depth + 1 < cb_in.config.max_depth)
        => LET wanted == NonOriginCandidates(
                             scatter(cb_layer, 1, cb_in.queue, cb_in.config.max_offset))
           IN  /\ Len(cb_layer') = Min(Len(wanted), cb_cap)
               /\ \A k \in 1..Len(cb_layer') :
                      /\ cb_layer'[k].current_target = wanted[k].ptr_address
                      /\ cb_layer'[k].offset_history[cb_depth + 1] = wanted[k].offset

\* a static candidate emitted in a pass is in `results` with its module as root
StaticEmittedStep ==
    (cb_pc = "loop" /\ cb_depth' = cb_depth + 1)
        => \A c \in Range(NonOriginCandidates(
                              scatter(cb_layer, 1, cb_in.queue, cb_in.config.max_offset))) :
               InStaticModule(c.ptr_address)
                   => \E k \in (Len(cb_results) + 1)..Len(cb_results') :
                          /\ cb_results'[k].steps[1].kind = "StaticRoot"
                          /\ cb_results'[k].steps[1].module_name
                                 = classify_pointer(c.ptr_address, cb_in.modules).module_name
                          /\ cb_results'[k].steps[1].offset
                                 = classify_pointer(c.ptr_address, cb_in.modules).base_offset

\* C32: with scan_static_only set a candidate in a static module is emitted
\* as a chain root and never becomes a node of a layer of depth >= 1; with it
\* cleared every candidate other than the origin is expanded while
\* depth + 1 < max_depth
C32_StaticOnlyExpansion ==
    [](StaticNeverExpanded) /\ [][AllExpandedStep /\ StaticEmittedStep]_vars

\* the flag is set, a static candidate was emitted at depth 0 and the layer
\* of depth 1 holds the non-static candidates only
C32_Witness ==
    /\ cb_in.config.scan_static_only
    /\ cb_depth = 1
    /\ cb_results # <<>>
    /\ cb_layer # <<>>
    /\ cb_pc = "loop"

\* the flag is cleared and a static candidate is a node of the next layer
C32_ClearedExpandsStatic ==
    /\ ~cb_in.config.scan_static_only
    /\ cb_depth >= 1
    /\ \E k \in 1..Len(cb_layer) : InStaticModule(cb_layer[k].current_target)

\* ------------------------------------------------------------------------
\* C33: the cycle-to-origin guard
\* ------------------------------------------------------------------------

\* the address a chain's StaticRoot step names
RootAddress(chain) ==
    LET root == chain.steps[1]
        k == CHOOSE k \in 1..Len(cb_in.modules) :
                 cb_in.modules[k].name = root.module_name
    IN  cb_in.modules[k].base + root.offset

NotRootedAtTarget(chains) ==
    \A k \in 1..Len(chains) :
        /\ chains[k].steps # <<>>
        /\ chains[k].steps[1].kind = "StaticRoot"
        /\ RootAddress(chains[k]) # cb_in.config.target_address

\* C33: a candidate at config.target_address is neither emitted nor expanded:
\* no node of a layer of depth >= 1 has current_target = target_address and no
\* chain, collected or returned, is rooted at the target address; every node
\* is as deep as the loop counter, which never exceeds max_depth
C33_OriginGuard ==
    /\ cb_depth >= 1
           => \A k \in 1..Len(cb_layer) :
                  cb_layer[k].current_target # cb_in.config.target_address
    /\ NotRootedAtTarget(cb_results)
    /\ NotRootedAtTarget(cb_ret.chains)
    /\ \A k \in 1..Len(cb_layer) : PathNode_depth(cb_layer[k]) = cb_depth
    /\ cb_depth <= cb_in.config.max_depth

\* the target lies in a module, the pointer stored at the target address was a
\* candidate of the second pass (it points to 0x10100, which points to the
\* target), and the call returned
C33_Witness ==
    /\ InStaticModule(cb_in.config.target_address)
    /\ PointerData(65792, 131072) \in Range(cb_in.queue.records)
    /\ PointerData(131072, 65792) \in Range(cb_in.queue.records)
    /\ cb_depth >= 2
    /\ cb_ret.returned

\* a cycle through another address: the node at target - 8 is its own child
C33_CycleKept ==
    /\ cb_depth = 2
    /\ \E k \in 1..Len(cb_layer) :
           /\ cb_layer[k].current_target = 131064
           /\ cb_layer[k].offset_history = <<16, 8>>

\* ------------------------------------------------------------------------
\* C34: the valid ranges and the validity predicate
\* ------------------------------------------------------------------------

InInputRegion(a) == \E k \in 1..Len(vr_in) : vr_in[k].start <= a /\ a < vr_in[k].end
InMergedRange(a) == \E k \in 1..Len(vr_ranges) : vr_ranges[k][1] <= a /\ a < vr_ranges[k][2]

\* the addresses at which membership in a union of the modelled regions can change
ProbeAddresses == { 0 } \cup UNION { { p - 1, p, p + 1 } : p \in RangePoints }

MergedWellFormed ==
    /\ \A k \in 1..Len(vr_ranges) : vr_ranges[k][1] < vr_ranges[k][2]
    /\ \A i, j \in 1..Len(vr_ranges) : i < j => vr_ranges[i][2] < vr_ranges[j][1]

\* C34: the merged range list is sorted by start, pairwise disjoint and
\* non-adjacent and covers exactly the addresses of the input regions, and
\* is_valid_pointer(v) is true exactly when v masked to its lower 48 bits lies
\* in [start, end) of some input region
C34_ValidityIsMembership ==
    /\ vr_pc \in {"ready", "asked"}
           => /\ MergedWellFormed
              /\ \A a \in ProbeAddresses : InMergedRange(a) <=> InInputRegion(a)
    /\ vr_pc = "asked"
           => (vr_out <=> InInputRegion(vr_value % (BYTE_RADIX ^ 6)))

\* the adjacent regions (0x1000,0x2000), (0x2000,0x3000) became the one range
\* (0x1000,0x3000) and the value 0x2500 was found valid
C34_Witness ==
    /\ vr_pc = "asked"
    /\ vr_in = << [start |-> 4096, end |-> 8192, name |-> "r"],
                  [start |-> 8192, end |-> 12288, name |-> "r"] >>
    /\ vr_ranges = << <<4096, 12288>> >>
    /\ vr_value = 9472
    /\ vr_out

\* three ranges survive the merge of an unsorted list, and a tagged value
\* inside the middle one is found by the binary search
C34_ThreeRanges ==
    /\ vr_pc = "asked"
    /\ Len(vr_ranges) = 3
    /\ vr_in[1].start > vr_in[2].start
    /\ vr_value >= BYTE_RADIX ^ 6
    /\ vr_out

\* ------------------------------------------------------------------------
\* C35: the layout of the records in the mapping
\* ------------------------------------------------------------------------

EntryEnd(entry) == entry[1] + entry[2]

QueueLayout(q) ==
    /\ Len(q.indices) = len(q)
    /\ \A i \in 1..Len(q.indices) : q.indices[i][1] % 16 = 0
    /\ \A i \in 1..Len(q.indices) : \A j \in 1..Len(q.indices) :
           i < j => /\ q.indices[i][1] < q.indices[j][1]
                    /\ EntryEnd(q.indices[i]) <= q.indices[j][1]
    /\ q.write_offset = IF q.indices = <<>>
                        THEN 0
                        ELSE EntryEnd(q.indices[Len(q.indices)])
    /\ q.write_offset <= q.capacity

\* C35: after any sequence of push, push_batch and clear the index has len()
\* entries, every offset is a multiple of 16, the entries are in strictly
\* increasing offset order and do not overlap, and the last record ends at
\* write_offset, which is at most capacity
C35_LayoutInvariant == \A h \in mq_handles : mq[h].alive => QueueLayout(mq[h])

\* a queue that grew past its initial size and holds three records
C35_Witness ==
    \E h \in mq_handles :
        /\ mq[h].alive
        /\ mq[h].count = 3
        /\ mq[h].capacity > INITIAL_SIZE
        /\ Len(mq_pushed[h]) = 3
        /\ mq[h].write_offset = 48

\* ------------------------------------------------------------------------
\* C38: the mapping after a failed grow
\* ------------------------------------------------------------------------

\* C38: the mapping is present in every state of a live queue, so get(i)
\* returns a record for every i < len() and None from len() on
C38_MappingPresent ==
    \A h \in mq_handles :
        mq[h].alive
            => /\ mq[h].mmap.some
               /\ \A i \in 0..(len(mq[h]) - 1) : get(fs, mq[h], i).some
               /\ ~get(fs, mq[h], len(mq[h])).some

\* ------------------------------------------------------------------------
\* C36: scan_all_pointers returns
\* ------------------------------------------------------------------------

ScanReturned ==
    /\ sc_ret.returned
    /\ sc_writer.st = "done"
    /\ \A i \in DOMAIN sc_task : TaskFinished(sc_task[i])

\* C36: under every interleaving of the region workers, the writer thread
\* and the cancellation, every blocked worker is released, the writer is
\* joined and the call returns a queue or an error
C36_AlwaysReturns == <>ScanReturned

\* the writer waits for the pool to sort its buffer while the channel is full
\* and every pool thread is blocked in send
ScanStuck ==
    /\ sc_writer.st = "sort"
    /\ ~pool_has_idle_worker
    /\ \A i \in BusyWorkers : sc_task[i].st = "send"
    /\ ~channel_has_room(sc_chan)
    /\ sc_rx_alive

\* ------------------------------------------------------------------------
\* C37: the process a scan reads from
\* ------------------------------------------------------------------------

\* C37: all region scans of one scan_all_pointers call read from the same
\* bound pid, whatever other threads bind while the scan runs
C37_OneProcessPerScan ==
    \A i, j \in DOMAIN sc_region_pid :
        (sc_region_pid[i] # 0 /\ sc_region_pid[j] # 0)
            => sc_region_pid[i] = sc_region_pid[j]

\* ------------------------------------------------------------------------
\* C39: the chunk loop of fuzzy_initial_scan ends
\* ------------------------------------------------------------------------

\* the reads are consecutive, start at the page of `start` and end at `end`
ReadsCover ==
    /\ fz_reads # <<>>
    /\ fz_reads[1][1] = page_align_down(fz_in.start)
    /\ \A k \in 1..Len(fz_reads) : fz_reads[k][2] > 0
    /\ \A k \in 1..(Len(fz_reads) - 1) :
           fz_reads[k][1] + fz_reads[k][2] = fz_reads[k + 1][1]
    /\ fz_reads[Len(fz_reads)][1] + fz_reads[Len(fz_reads)][2] = fz_in.end

FuzzyRanToEnd == fz_pc = "done" /\ fz_ret.ok /\ ~fz_ret.cancelled

\* C39: for every start, end and chunk_size the loop ends after finitely
\* many reads; without cancellation the reads are consecutive, each advances
\* the current address, they cover [page_floor(start), end) and
\* processed_counter has grown by end - page_floor(start)
C39_Terminates ==
    /\ <>(fz_pc = "done")
    /\ [](FuzzyRanToEnd
             => /\ ReadsCover
                /\ fz_processed = fz_in.end - page_align_down(fz_in.start))

\* the loop with chunk_size = 0: the read log is full of empty reads at the
\* first address
FuzzySpins ==
    /\ fz_pc = "scan"
    /\ fz_in.chunk_size = 0
    /\ Len(fz_reads) = MaxFuzzyReads
    /\ \A k \in 1..Len(fz_reads) : fz_reads[k] = <<page_align_down(fz_in.start), 0>>
    /\ fz_current = page_align_down(fz_in.start)
    /\ fz_processed = 0

====
